---------------------------- MODULE Spec2Model ----------------------------
(***************************************************************************)
(* Fiscal device client of the ZIMRA fiscalisation module:                 *)
(*   fiscalisation/models/fiscal_device.py  (token manager, API client,    *)
(*                                           error classifier)             *)
(*   fiscalisation/models/account_move.py   (receipt submission)           *)
(*                                                                         *)
(* Each actor is one user session running action_fiscalise_invoice.  The   *)
(* blocking HTTP round trips (token POST, receipt POST) are split into a   *)
(* send step and a receive step, so that time and the other actor can      *)
(* move between them.                                                      *)
(***************************************************************************)
EXTENDS Integers, Sequences, FiniteSets, TLC

(* ------------------------------ bounds -------------------------------- *)
MaxNow == 3          \* the clock runs over 0..MaxNow
MaxCalls == 2        \* invocations of action_fiscalise_invoice started in a run
MaxExpiresIn == 2    \* expires_in values the token endpoint answers: 1..MaxExpiresIn

(* --------------------------- program constants ------------------------ *)
TIMEOUT == 15

NULL == "None"       \* Python None / Odoo False of an unset text field
Unset == 0 - 1       \* an unset Datetime field

Actors == {"a1", "a2"}       \* user sessions
Sequential == {"a1"}         \* the session of the one-operation-at-a-time runs
Devices == {"d1", "d2", "d3"}
Invoices == {"INV1", "INV2", "INV3"}

(* fiscal.device rows: company_id of each device (c2 has no device) *)
deviceCompany == [d \in Devices |-> CASE d = "d1" -> "c1" [] d = "d2" -> "c3" [] OTHER -> "c4"]

(* the order in which search() returns the devices (by id) *)
DeviceOrder == <<"d1", "d2", "d3">>

(* account.move rows: the fields this subsystem only reads *)
Tax(incl, amount) == [price_include |-> incl, amount |-> amount]

Line(qty, display, product, hs, taxes, price, discount, name) ==
    [quantity |-> qty, display_type |-> display, product_id |-> product,
     hs_code |-> hs, tax_ids |-> taxes, price_unit |-> price, discount |-> discount,
     name |-> name]

(* res.partner rows *)
partnerData ==
    [p1 |-> [name |-> "Customer 1", vat |-> "V1", tin_number |-> "T1", tin |-> "T1"],
     p2 |-> [name |-> "Customer 2", vat |-> "V2", tin_number |-> NULL, tin |-> NULL],
     p3 |-> [name |-> "Customer 3", vat |-> NULL, tin_number |-> "T3", tin |-> "T3"],
     p4 |-> [name |-> "Customer 4", vat |-> NULL, tin_number |-> NULL, tin |-> NULL]]

invoiceData ==
    [i \in Invoices |->
        CASE i = "INV1" ->
               [company_id |-> "c1", move_type |-> "out_invoice", partner_id |-> "p1",
                amount_total |-> 23,
                lines |-> << Line(2, "product", "prodA", "HS1", << Tax(TRUE, 15) >>, 10, 0, "Widget") >>]
          [] i = "INV2" ->
               [company_id |-> "c2", move_type |-> "out_invoice", partner_id |-> "p1",
                amount_total |-> 10,
                lines |-> << Line(1, "product", "prodA", "HS1", << Tax(TRUE, 15) >>, 10, 0, "Widget") >>]
          [] OTHER ->
               [company_id |-> "c1", move_type |-> "out_refund", partner_id |-> "p1",
                amount_total |-> 15,
                lines |-> << Line(1, "product", "prodA", "HS1", << Tax(TRUE, 15) >>, 10, 0, "Widget"),
                             Line(1, "product", "prodB", "HS2", << Tax(FALSE, 15) >>, 5, 0, "Gadget") >>]]

VARIABLES
    now,        \* wall clock (datetime.now())
    dev,        \* fiscal.device records
    inv,        \* account.move records: the fields this subsystem writes
    notes,      \* number of chatter notes posted on each invoice (message_post)
    pc,         \* position of each actor inside action_fiscalise_invoice
    loc,        \* locals of each actor's running invocation
    calls,      \* invocations started so far
    receiptReqs,\* POST /api/v1/receipts requests sent, per invoice
    accepted,   \* 2xx answers of /api/v1/receipts, per invoice
    docs,       \* account.move records: the fields this subsystem only reads
    job,        \* the scheduled job that is running: its batch and what is left of it
    dayReqs,    \* day/status requests sent to the remote service, per device and endpoint
    devnotes,   \* number of chatter notes posted on each device (message_post)
    dayOp,      \* the last device operation (button or one device of a batch) and its end
    ops,        \* button presses and scheduled jobs started so far
    parsed,     \* the HTTP error answer under _parse_error_response and what it returned
    registry,   \* fiscal.device rows created so far: their (company_id, device_id) columns
    schedule    \* the scheduler's minute: its clock reading, the day jobs it started in it
                \* and the status changes they made

dayVars == <<docs, job, dayReqs, devnotes, dayOp, ops>>

auxVars == <<parsed, registry, schedule>>

vars == <<now, dev, inv, notes, pc, loc, calls, receiptReqs, accepted, docs, job, dayReqs,
          devnotes, dayOp, ops, parsed, registry, schedule>>

(* ------------------------- the remote service ------------------------- *)
(* Exceptions requests raises for a call that gets no HTTP answer.        *)
(* ConnectTimeout derives from both ConnectionError and Timeout;          *)
(* TooManyRedirects is a RequestException that is neither.                *)
TransportErrors == {"ConnectionError", "ConnectTimeout", "ReadTimeout", "TooManyRedirects"}

IsConnectionError(e) == e \in {"ConnectionError", "ConnectTimeout"}
IsTimeout(e) == e \in {"ConnectTimeout", "ReadTimeout"}

(* A JSON object is a function from its keys to their values:             *)
(* k \in DOMAIN d is Python's `k in d`, Get is dict.get(k, default).      *)
Get(d, k, default) == IF k \in DOMAIN d THEN d[k] ELSE default

Object(d) == [kind |-> "object", json |-> d]
NonJson == [kind |-> "nonjson"]        \* body that is not parseable JSON
NonObject == [kind |-> "nonobject"]    \* JSON, but a list/string/null: has no .get

(* Non-2xx answers (FDMS problem details) *)
ErrorResponses ==
    { [status |-> 500, body |-> NonJson],
      [status |-> 502, body |-> NonObject],
      [status |-> 422, body |-> Object([errorCode |-> "MISSING_REQUIRED_FIELD", detail |-> "x",
                                        errors |-> << <<"buyerTIN", <<"required">> >> >>])],
      [status |-> 400, body |-> Object([errorCode |-> "RCPT013", title |-> "Duplicate invoice",
                                        operationID |-> "op-1", status |-> 409])],
      [status |-> 401, body |-> Object([type |-> "unauthorized"])] }

(* 2xx answers of POST /api/v1/devices/token *)
TokenBodies ==
    { Object([access_token |-> "tokA", refresh_token |-> "refA", expires_in |-> e]) :
          e \in 1..MaxExpiresIn }
    \cup { Object([access_token |-> "tokB", refresh_token |-> "refB", expires_in |-> 1]),
           Object([refresh_token |-> "refA", expires_in |-> 1]),
           Object([access_token |-> "tokA", expires_in |-> 1]),
           Object([access_token |-> "tokA", refresh_token |-> "refA"]),
           NonJson }

(* 2xx answers of POST /api/v1/receipts.  receiptFiscalDate is a parsed   *)
(* view of the ISO-8601 text: its seconds, whether a fraction follows a   *)
(* '.', and whether the part before the '.' matches %Y-%m-%dT%H:%M:%S.    *)
FiscalDate(secs, frac, wellformed) == [secs |-> secs, frac |-> frac, wellformed |-> wellformed]

ReceiptBodies ==
    { Object([receiptFiscalDate |-> FiscalDate(1, TRUE, TRUE), qrCodeUrl |-> "qr-1",
              deviceID |-> "7", receiptGlobalNo |-> "100", receiptNumber |-> "1",
              fiscalDayNo |-> "12", verificationCode |-> "VC-1"]),
      Object([receiptFiscalDate |-> FiscalDate(2, FALSE, FALSE), qrCodeUrl |-> "qr-2",
              deviceID |-> "7", receiptGlobalNo |-> "101", receiptNumber |-> "2",
              fiscalDayNo |-> "12", verificationCode |-> "VC-2"]),
      Object([deviceID |-> "7", receiptGlobalNo |-> "102", receiptNumber |-> "3"]),
      NonObject, NonJson }

(* What one HTTP round trip can end with *)
Raised(e) == [kind |-> "exc", exc |-> e]
HttpError(r) == [kind |-> "http", status |-> r.status, body |-> r.body]
Ok(b) == [kind |-> "ok", body |-> b]

TokenOutcomes ==
    { Raised(e) : e \in TransportErrors } \cup { HttpError(r) : r \in ErrorResponses }
    \cup { Ok(b) : b \in TokenBodies }

ReceiptOutcomes ==
    { Raised(e) : e \in TransportErrors } \cup { HttpError(r) : r \in ErrorResponses }
    \cup { Ok(b) : b \in ReceiptBodies }

(* --------------------------- error classifier ------------------------- *)
(* A message is a sequence of lines, a line a sequence of text pieces.    *)
Text(s) == << <<s>> >>

RECURSIVE FieldLines(_)
FieldLines(errors) ==
    IF errors = << >> THEN << >>
    ELSE << <<"Field", Head(errors)[1], ":">> \o Head(errors)[2] >> \o FieldLines(Tail(errors))

error_map ==
    [DEVICE_NOT_FOUND |-> "Device not registered in FDMS",
     INVALID_OPERATION_STATE |-> "Device in invalid state for requested operation",
     MISSING_REQUIRED_FIELD |-> "Required configuration missing in device",
     AUTH_TOKEN_EXPIRED |-> "Authentication token has expired"]

_parse_validation_errors(response_data) ==
    << << Get(error_map, Get(response_data, "errorCode", ""), "Validation error occurred") >>,
       << Get(response_data, "detail", "") >> >>
    \o (IF "errors" \in DOMAIN response_data THEN FieldLines(response_data["errors"]) ELSE << >>)

(* _parse_error_response taking the message from title before detail and *)
(* the status from the HTTP status line only                              *)
_parse_error_response_TitleFirst(status_code, body) ==
    IF body.kind = "nonjson" THEN
        [raises |-> FALSE, code |-> "INVALID_RESPONSE",
         message |-> Text("Server returned non-JSON response"),
         operation_id |-> "", status |-> status_code]
    ELSE IF body.kind = "nonobject" THEN
        [raises |-> TRUE, code |-> "UNKNOWN", message |-> Text("Unknown error occurred"),
         operation_id |-> "", status |-> status_code]
    ELSE
        [raises |-> FALSE,
         code |-> Get(body.json, "errorCode", Get(body.json, "type", "UNKNOWN")),
         message |-> IF status_code = 422 THEN _parse_validation_errors(body.json)
                     ELSE IF "title" \in DOMAIN body.json THEN Text(body.json["title"])
                     ELSE IF "detail" \in DOMAIN body.json THEN Text(body.json["detail"])
                     ELSE Text("Unknown error occurred"),
         operation_id |-> Get(body.json, "operationID", ""),
         status |-> status_code]

(* _parse_error_response of an HTTPError: raises |-> TRUE is the          *)
(* AttributeError of response_data.get on a body that is no object.       *)
_parse_error_response(status_code, body) ==
    IF body.kind = "nonjson" THEN
        [raises |-> FALSE, code |-> "INVALID_RESPONSE",
         message |-> Text("Server returned non-JSON response"),
         operation_id |-> "", status |-> status_code]
    ELSE IF body.kind = "nonobject" THEN
        [raises |-> TRUE, code |-> "UNKNOWN", message |-> Text("Unknown error occurred"),
         operation_id |-> "", status |-> status_code]
    ELSE
        LET d == body.json IN
        [raises |-> FALSE,
         code |-> Get(d, "errorCode", Get(d, "type", "UNKNOWN")),
         message |-> IF status_code = 422 THEN _parse_validation_errors(d)
                     ELSE IF "detail" \in DOMAIN d THEN Text(d["detail"])
                     ELSE IF "title" \in DOMAIN d THEN Text(d["title"])
                     ELSE Text("Unknown error occurred"),
         operation_id |-> Get(d, "operationID", ""),
         status |-> Get(d, "status", status_code)]

_log_error_details(device, error_data) ==
    [device EXCEPT !.last_error_code = error_data.code,
                   !.last_error_message = error_data.message,
                   !.last_error_status = error_data.status,
                   !.last_status_check = now]

(* "FDMS Error [code]\nStatus: status\nOperation ID: id\nMessage: message" *)
_format_error_message(error_data) ==
    << <<"FDMS Error [", error_data.code, "]">>,
       <<"Status:", ToString(error_data.status)>>,
       <<"Operation ID:", IF error_data.operation_id = "" THEN "None provided"
                          ELSE error_data.operation_id>>,
       <<"Message:">> \o Head(error_data.message) >>
    \o Tail(error_data.message)

(* the structured error of a call that built none *)
NoErrorData == [code |-> NULL, status |-> 0, message |-> << >>, operation_id |-> ""]

(* str(e) of the AttributeError of response_data.get on a JSON list *)
AttributeErrorText == Text("'list' object has no attribute 'get'")

(* ----------------------------- token manager -------------------------- *)
(* NeedsRefresh asking for a token on every call *)
NeedsRefresh_Always(device) == TRUE

NeedsRefresh(device) == device.token_expiry = Unset \/ now > device.token_expiry

TokenBodyComplete(body) ==
    /\ body.kind = "object"
    /\ \A k \in {"access_token", "refresh_token", "expires_in"} : k \in DOMAIN body.json

(* The except clause of _get_new_token an outcome ends in, in the order   *)
(* the clauses are written; "none" when the token is written.             *)
TokenBranch(o) ==
    IF o.kind = "exc" /\ IsConnectionError(o.exc) THEN "ConnectionError"
    ELSE IF o.kind = "exc" /\ IsTimeout(o.exc) THEN "Timeout"
    ELSE IF o.kind = "http" THEN "HTTPError"
    ELSE IF o.kind = "ok" /\ TokenBodyComplete(o.body) THEN "none"
    ELSE "Exception"

(* str(e) of what the catch-all clause of _get_new_token catches *)
ExceptionText(o) ==
    IF o.kind = "exc" THEN o.exc
    ELSE IF o.body.kind = "nonjson" THEN "Expecting value"
    ELSE "Invalid API response structure"

(* _get_new_token carrying on with the token it already has when the     *)
(* token request gets no answer                                           *)
_get_new_token_StaleFallback(device, o) ==
    IF o.kind = "exc" /\ device.access_token # NULL
    THEN [raised |-> FALSE, device |-> device, error |-> << >>, error_data |-> NoErrorData]
    ELSE [raised |-> o.kind # "ok" \/ ~TokenBodyComplete(o.body),
          error |-> Text("Token refresh failed"), error_data |-> NoErrorData,
          device |-> IF o.kind = "ok" /\ TokenBodyComplete(o.body)
                     THEN [device EXCEPT !.access_token = o.body.json["access_token"],
                                         !.refresh_token = o.body.json["refresh_token"],
                                         !.token_expiry = now + o.body.json["expires_in"]]
                     ELSE device]

(* the except clauses of _get_new_token that write the error fields       *)
(* themselves and raise UserError(error_msg)                              *)
TokenFailure(device, code, error_msg) ==
    LET error_data == [code |-> code, status |-> 0, message |-> error_msg, operation_id |-> ""]
    IN [raised |-> TRUE, device |-> _log_error_details(device, error_data),
        error |-> error_msg, error_data |-> error_data]

(* _get_new_token: the device record after the call, whether it raised,   *)
(* the text of the error raised and the structured error behind it        *)
_get_new_token(device, o) ==
    LET branch == TokenBranch(o) IN
    CASE branch = "none" ->
           [raised |-> FALSE,
            device |-> [device EXCEPT !.access_token = o.body.json["access_token"],
                                      !.refresh_token = o.body.json["refresh_token"],
                                      !.token_expiry = now + o.body.json["expires_in"]],
            error |-> << >>, error_data |-> NoErrorData]
      [] branch = "ConnectionError" ->
           TokenFailure(device, "CONNECTION_REFUSED",
                        Text("Cannot connect to fiscal device server. Connection refused."))
      [] branch = "Timeout" ->
           TokenFailure(device, "TIMEOUT", Text("Connection timed out when requesting token."))
      [] branch = "HTTPError" ->
           LET error_data == _parse_error_response(o.status, o.body) IN
           IF error_data.raises
           THEN [raised |-> TRUE, device |-> device,
                 error |-> AttributeErrorText, error_data |-> NoErrorData]
           ELSE [raised |-> TRUE,
                 device |-> _log_error_details(device, error_data),
                 error |-> _format_error_message(error_data), error_data |-> error_data]
      [] OTHER ->
           TokenFailure(device, "UNKNOWN_ERROR", << <<"Token refresh failed:", ExceptionText(o)>> >>)

(* ----------------------------- API client ----------------------------- *)
(* The except clause of _api_request the primary call ends in; "none"     *)
(* when response.json() is returned, "escapes" when no clause matches.    *)
(* response.json() of a 2xx body that is not JSON raises a                *)
(* RequestException from requests 2.27 on and a plain ValueError before.  *)
PrimaryBranch(o, json_error_is_request_exception) ==
    IF o.kind = "http" THEN "HTTPError"
    ELSE IF o.kind = "exc" /\ IsConnectionError(o.exc) THEN "ConnectionError"
    ELSE IF o.kind = "exc" /\ IsTimeout(o.exc) THEN "Timeout"
    ELSE IF o.kind = "exc" THEN "RequestException"
    ELSE IF o.body.kind = "nonjson"
         THEN (IF json_error_is_request_exception THEN "RequestException" ELSE "escapes")
    ELSE "none"

(* the transport clauses of _api_request: log error_data, then            *)
(* raise UserError(error_data['message'])                                 *)
TransportFailure(device, code, message) ==
    LET error_data == [code |-> code, status |-> 0, message |-> message, operation_id |-> ""]
    IN [raised |-> TRUE, device |-> _log_error_details(device, error_data),
        error |-> error_data.message, error_data |-> error_data]

(* _api_request after the primary call got its outcome *)
_api_request_primary(device, o, json_error_is_request_exception) ==
    LET branch == PrimaryBranch(o, json_error_is_request_exception) IN
    CASE branch = "none" ->
           [raised |-> FALSE, device |-> device, error |-> << >>, error_data |-> NoErrorData]
      [] branch = "escapes" ->
           [raised |-> TRUE, device |-> device,
            error |-> Text("Expecting value"), error_data |-> NoErrorData]
      [] branch = "HTTPError" ->
           LET error_data == _parse_error_response(o.status, o.body) IN
           IF error_data.raises
           THEN [raised |-> TRUE, device |-> device,
                 error |-> AttributeErrorText, error_data |-> NoErrorData]
           ELSE [raised |-> TRUE,
                 device |-> _log_error_details(device, error_data),
                 error |-> _format_error_message(error_data), error_data |-> error_data]
      [] branch = "ConnectionError" ->
           TransportFailure(device, "CONNECTION_REFUSED",
               Text("Connection refused. Please verify the server is running and accessible."))
      [] branch = "Timeout" ->
           TransportFailure(device, "TIMEOUT",
               Text("Connection timed out. Server might be overloaded."))
      [] OTHER ->
           TransportFailure(device, "CONNECTION_FAILED",
               << <<"Connection error:", ExceptionText(o)>> >>)

(* ------------------------- receipt submission ------------------------- *)
(* search([('company_id', '=', company)], limit=1) *)
DeviceOf(company) ==
    IF \E d \in Devices : deviceCompany[d] = company
    THEN CHOOSE d \in Devices : deviceCompany[d] = company
    ELSE NULL

(* receipt_type of _compute_receipt_type *)
_compute_receipt_type(move_type) ==
    IF move_type = "out_refund" THEN "CreditNote"
    ELSE IF move_type = "in_refund" THEN "DebitNote"
    ELSE "FiscalInvoice"

(* str.upper() on the receipt types *)
upper(receipt_type) ==
    CASE receipt_type = "CreditNote" -> "CREDITNOTE"
      [] receipt_type = "DebitNote" -> "DEBITNOTE"
      [] OTHER -> "FISCALINVOICE"

(* _adjust_amount flipping the sign of debit notes as well *)
_adjust_amount_AnyNote(amount, receipt_type) ==
    IF upper(receipt_type) \in {"CREDITNOTE", "DEBITNOTE"} THEN (0 - 1) * amount ELSE amount

_adjust_amount(amount, receipt_type) ==
    IF upper(receipt_type) = "CREDITNOTE" THEN (0 - 1) * amount ELSE amount

(* Monetary figures of the payload are held in hundredths of the currency *)
(* unit, so that price_unit * (discount / 100.0) stays a whole number.    *)
Cents(amount) == 100 * amount

(* the lines search([('move_id', '=', id), ('quantity', '>', 0)]) finds *)
PositiveLines(move) == SelectSeq(move.lines, LAMBDA line : line.quantity > 0)

(* tax_inclusion_types looking at the first line only *)
tax_inclusion_types_FirstLineOnly(move) ==
    LET lines == PositiveLines(move) IN
    IF lines # << >> /\ lines[1].tax_ids # << >> THEN { lines[1].tax_ids[1].price_include }
    ELSE { }

tax_inclusion_types(move) ==
    LET lines == PositiveLines(move) IN
    { lines[n].tax_ids[1].price_include : n \in { m \in 1..Len(lines) : lines[m].tax_ids # << >> } }

(* inv_lines leaving out the lines whose product has no HS code *)
inv_lines_WithHSCode(move) ==
    SelectSeq(move.lines,
              LAMBDA line : /\ line.quantity > 0
                            /\ line.display_type \in {NULL, "product"}
                            /\ line.product_id # NULL
                            /\ line.hs_code # NULL)

(* the lines _prepare_receipt_lines loops over, in record order *)
inv_lines(move) ==
    SelectSeq(move.lines,
              LAMBDA line : /\ line.quantity > 0
                            /\ line.display_type \in {NULL, "product"}
                            /\ line.product_id # NULL)

JsonNull == [kind |-> "null"]

(* invoice.customer_vat = invoice.partner_id.vat or '' *)
_compute_customer_vat(move) ==
    IF move.partner_id = NULL \/ partnerData[move.partner_id].vat = NULL THEN ""
    ELSE partnerData[move.partner_id].vat

(* invoice.customer_tin = invoice.partner_id.tin or '' *)
_compute_customer_tin(move) ==
    IF move.partner_id = NULL \/ partnerData[move.partner_id].tin = NULL THEN ""
    ELSE partnerData[move.partner_id].tin

(* _prepare_buyer_data of an invoice that has a partner (the caller has    *)
(* raised for one that has none)                                           *)
_prepare_buyer_data(move) ==
    IF partnerData[move.partner_id].vat # NULL /\ partnerData[move.partner_id].tin_number # NULL
    THEN Object([buyerRegisterName |-> partnerData[move.partner_id].name,
                 vatNumber |-> _compute_customer_vat(move),
                 buyerTIN |-> _compute_customer_tin(move)])
    ELSE JsonNull

RECURSIVE SumAmounts(_)
SumAmounts(tax_ids) ==
    IF tax_ids = << >> THEN 0 ELSE Head(tax_ids).amount + SumAmounts(Tail(tax_ids))

(* sale_line_data of _prepare_receipt_lines; names here are shorter than  *)
(* the 100 characters line.name[:100] keeps                               *)
sale_line_data(line, receipt_type, lines) ==
    LET data == [receiptLineType |-> "Sale",
                 receiptLineNo |-> Len(lines) + 1,
                 receiptLineHSCode |-> line.hs_code,
                 receiptLineName |-> <<line.name>>,
                 receiptLinePrice |-> _adjust_amount(Cents(line.price_unit), receipt_type),
                 receiptLineQuantity |-> line.quantity,
                 receiptLineTotal |-> _adjust_amount(Cents(line.price_unit * line.quantity),
                                                     receipt_type)]
    IN IF line.tax_ids # << >> THEN data @@ [taxPercent |-> SumAmounts(line.tax_ids)] ELSE data

(* discount_line_data with the discount as a positive figure *)
discount_line_data_Unsigned(line, receipt_type, lines, sale) ==
    LET discount_amount == line.price_unit * line.discount
        discount_total == discount_amount * line.quantity
        data == [receiptLineType |-> "Discount",
                 receiptLineNo |-> Len(lines) + 1,
                 receiptLineHSCode |-> line.hs_code,
                 receiptLineName |-> sale.receiptLineName \o <<"(Discount)">>,
                 receiptLinePrice |-> _adjust_amount(discount_amount, receipt_type),
                 receiptLineQuantity |-> line.quantity,
                 receiptLineTotal |-> _adjust_amount(discount_total, receipt_type)]
    IN IF "taxPercent" \in DOMAIN sale THEN data @@ [taxPercent |-> sale.taxPercent] ELSE data

(* discount_line_data of _prepare_receipt_lines; discount_amount is       *)
(* price_unit * (discount / 100.0), in hundredths price_unit * discount   *)
discount_line_data(line, receipt_type, lines, sale) ==
    LET discount_amount == line.price_unit * line.discount
        discount_total == discount_amount * line.quantity
        data == [receiptLineType |-> "Discount",
                 receiptLineNo |-> Len(lines) + 1,
                 receiptLineHSCode |-> line.hs_code,
                 receiptLineName |-> sale.receiptLineName \o <<"(Discount)">>,
                 receiptLinePrice |-> (0 - 1) * _adjust_amount(discount_amount, receipt_type),
                 receiptLineQuantity |-> line.quantity,
                 receiptLineTotal |-> (0 - 1) * _adjust_amount(discount_total, receipt_type)]
    IN IF "taxPercent" \in DOMAIN sale THEN data @@ [taxPercent |-> sale.taxPercent] ELSE data

(* the loop of _prepare_receipt_lines over what is left of inv_lines *)
RECURSIVE ReceiptLinesLoop(_, _, _)
ReceiptLinesLoop(todo, receipt_type, lines) ==
    IF todo = << >> THEN [error |-> << >>, lines |-> lines]
    ELSE LET line == Head(todo) IN
         IF line.hs_code = NULL
         THEN [error |-> << <<"Product (", line.name, ") has no HS Code">> >>, lines |-> << >>]
         ELSE LET sale == sale_line_data(line, receipt_type, lines)
                  with_sale == Append(lines, sale)
              IN ReceiptLinesLoop(Tail(todo), receipt_type,
                     IF line.discount > 0
                     THEN Append(with_sale,
                                 discount_line_data(line, receipt_type, with_sale, sale))
                     ELSE with_sale)

_prepare_receipt_lines(move) ==
    ReceiptLinesLoop(inv_lines(move), _compute_receipt_type(move.move_type), << >>)

_prepare_payment_data(move) ==
    << [moneyTypeCode |-> "Cash",
        paymentAmount |-> _adjust_amount(Cents(move.amount_total),
                                         _compute_receipt_type(move.move_type))] >>

(* no payload was built *)
NoPayload == [receiptType |-> NULL]

Raises(kind, text) == [raises |-> kind, error |-> text, payload |-> NoPayload]

(* _prepare_fiscal_payload: the payload, or the UserError it raises       *)
(* (raises |-> "none" when it returns).  The values of the dict are       *)
(* evaluated in the order they are written: buyerData before receiptLines.*)
_prepare_fiscal_payload(move) ==
    IF Cardinality(tax_inclusion_types(move)) > 1
    THEN Raises("mixed tax inclusion", Text("Mixed tax inclusion types detected."))
    ELSE IF move.partner_id = NULL
    THEN Raises("no customer", Text("Customer information is required for fiscalisation"))
    ELSE LET receiptLines == _prepare_receipt_lines(move) IN
         IF receiptLines.error # << >>
         THEN Raises("no HS code", receiptLines.error)
         ELSE [raises |-> "none", error |-> << >>,
               payload |->
                 [receiptType |-> _compute_receipt_type(move.move_type),
                  buyerData |-> _prepare_buyer_data(move),
                  receiptLinesTaxInclusive |->
                      IF tax_inclusion_types(move) = { } THEN TRUE
                      ELSE CHOOSE b \in tax_inclusion_types(move) : TRUE,
                  receiptLines |-> receiptLines.lines,
                  receiptPayments |-> _prepare_payment_data(move),
                  receiptTotal |-> _adjust_amount(Cents(move.amount_total),
                                                  _compute_receipt_type(move.move_type)),
                  receiptPrintForm |-> "InvoiceA4"]]

(* the UserError _prepare_fiscal_payload ends with, "none" when it returns *)
PayloadError(i) == _prepare_fiscal_payload(docs[i]).raises

(* fiscal_date of _process_fiscal_response *)
ParseFiscalDate(body) ==
    IF "receiptFiscalDate" \in DOMAIN body /\ body["receiptFiscalDate"].wellformed
    THEN body["receiptFiscalDate"].secs
    ELSE now

_process_fiscal_response(invoice, body) ==
    [invoice EXCEPT !.qr_url = Get(body, "qrCodeUrl", NULL),
                    !.fiscal_date = ParseFiscalDate(body),
                    !.device_id = Get(body, "deviceID", NULL),
                    !.receipt_global_number = Get(body, "receiptGlobalNo", NULL),
                    !.receipt_number = Get(body, "receiptNumber", NULL),
                    !.fiscal_day_no = Get(body, "fiscalDayNo", NULL),
                    !.verification_code = Get(body, "verificationCode", NULL),
                    !.fiscalised = TRUE]

(* ------------------------------ the state ----------------------------- *)
(* is_day_open of _compute_is_day_open counting only the opened status *)
_compute_is_day_open_OnlyOpened(fiscal_day_status) == fiscal_day_status = "FISCALDAYOPENED"

(* the stored computed field is_day_open, from fiscal_day_status *)
_compute_is_day_open(fiscal_day_status) == fiscal_day_status # "FISCALDAYCLOSED"

NewDevice ==
    [access_token |-> NULL, refresh_token |-> NULL, token_expiry |-> Unset,
     last_error_code |-> NULL, last_error_message |-> << >>, last_error_status |-> 0,
     last_status_check |-> Unset,
     fiscal_day_status |-> NULL, fiscal_day_no |-> NULL, last_receipt_global_no |-> 0,
     last_receipt_no |-> 0, fiscal_day_counters |-> << >>, last_operation |-> Unset,
     is_day_open |-> _compute_is_day_open(NULL)]

NewInvoice(i) ==
    [fiscalised |-> FALSE, qr_url |-> NULL, fiscal_date |-> Unset,
     device_id |-> IF DeviceOf(invoiceData[i].company_id) = NULL THEN NULL ELSE "7",
     receipt_global_number |-> NULL, receipt_number |-> NULL, fiscal_day_no |-> NULL,
     verification_code |-> NULL]

(* locals of an invocation: fiscalised_at_check is self.fiscalised as the *)
(* first guard read it, reqs is the sequence of HTTP requests it has  *)
(* issued, check_now/check_expiry what _refresh_token_if_needed read,     *)
(* token_reply what the token request ended with, stage/outcome where    *)
(* and with what the invocation ended, api_error the text of the error    *)
(* _api_request raised and error_data the structured error behind it,     *)
(* note the body of the note posted, error the text of the UserError the  *)
(* action raised, payload what _prepare_fiscal_payload returned.          *)
NoOutcome == [kind |-> "none"]

NoError == [error |-> << >>, error_data |-> NoErrorData]

(* _("prefix %s") % str(e) *)
Prefixed(prefix, text) == << <<prefix>> \o Head(text) >> \o Tail(text)

NewCall(i) ==
    [invoice |-> i, fiscalised_at_check |-> inv[i].fiscalised,
     reqs |-> << >>, check_now |-> Unset, check_expiry |-> Unset,
     token_reply |-> NoOutcome, result |-> "running", stage |-> "precheck",
     outcome |-> NoOutcome, api_error |-> << >>, error_data |-> NoErrorData,
     note |-> << >>, error |-> << >>, payload |-> NoPayload]

(* no scheduled job running *)
NoJob == [name |-> "none", batch |-> << >>, todo |-> << >>, done |-> << >>, raised |-> FALSE]

NoRequests == [open |-> 0, close |-> 0, status |-> 0]

(* no minute of the scheduler is followed *)
NoSchedule ==
    [clock |-> <<12, 0>>, started |-> { }, moved |-> [d \in Devices |-> << >>], ticks |-> 0]

NoDayOp == [op |-> "none", device |-> "d1", source |-> "none", reply |-> NoOutcome,
            result |-> "none", sent |-> FALSE]

(* no answer under classification *)
NoParse == [response |-> [status |-> 0, body |-> NonJson], done |-> FALSE,
            error_data |-> NoErrorData]

(* the rows of the devices of the runs that create none *)
DeviceRows == [n \in 1..Len(DeviceOrder) |->
                 [company_id |-> deviceCompany[DeviceOrder[n]], device_id |-> 7]]

Init ==
    /\ now = 0
    /\ dev = [d \in Devices |-> NewDevice]
    /\ inv = [i \in Invoices |-> NewInvoice(i)]
    /\ notes = [i \in Invoices |-> 0]
    /\ pc = [a \in Actors |-> "idle"]
    /\ loc = [a \in Actors |->
                [invoice |-> "INV1", fiscalised_at_check |-> FALSE,
                 reqs |-> << >>, check_now |-> Unset, check_expiry |-> Unset,
                 token_reply |-> NoOutcome, result |-> "none", stage |-> "precheck",
                 outcome |-> NoOutcome, api_error |-> << >>, error_data |-> NoErrorData,
                 note |-> << >>, error |-> << >>, payload |-> NoPayload]]
    /\ calls = 0
    /\ receiptReqs = [i \in Invoices |-> 0]
    /\ accepted = [i \in Invoices |-> 0]
    /\ docs = invoiceData
    /\ job = NoJob
    /\ dayReqs = [d \in Devices |-> NoRequests]
    /\ devnotes = [d \in Devices |-> 0]
    /\ dayOp = NoDayOp
    /\ ops = 0
    /\ parsed = NoParse
    /\ registry = DeviceRows
    /\ schedule = NoSchedule

TheDevice(a) == DeviceOf(docs[loc[a].invoice].company_id)

(* FailedInvoice with the commented-out `self.fiscalised = True` of the   *)
(* duplicate-invoice code switched on                                      *)
FailedInvoice_MarkDuplicate(invoice, o) ==
    IF o.kind = "http" /\ o.body.kind = "object" /\ Get(o.body.json, "errorCode", "") = "RCPT013"
    THEN [invoice EXCEPT !.fiscalised = TRUE]
    ELSE invoice

(* the invoice record after the `except Exception` clause of             *)
(* action_fiscalise_invoice: no field is written (marking a duplicate as  *)
(* fiscalised is commented out in the source)                             *)
FailedInvoice(invoice, o) == invoice

(* the locals after the `except Exception` clause caught the error r *)
Failed(call, stage, o, r) ==
    [call EXCEPT !.result = "failed", !.stage = stage, !.outcome = o,
                 !.token_reply = IF stage = "token" THEN o ELSE @,
                 !.api_error = IF stage \in {"token", "primary"} THEN r.error ELSE << >>,
                 !.error_data = r.error_data,
                 !.note = Prefixed("Technical Error:", r.error),
                 !.error = Prefixed("Fiscalisation process failed:", r.error)]

(* Fail sending the receipt request again after a transport failure *)
Fail_RetryPrimary(a, stage, o, r) ==
    IF stage = "primary" /\ o.kind = "exc"
    THEN /\ pc' = [pc EXCEPT ![a] = "primary"]
         /\ UNCHANGED <<notes, inv, loc>>
    ELSE /\ notes' = [notes EXCEPT ![loc[a].invoice] = @ + 1]
         /\ inv' = inv
         /\ loc' = [loc EXCEPT ![a] = Failed(@, stage, o, r)]
         /\ pc' = [pc EXCEPT ![a] = "idle"]

(* the `except Exception` clause of action_fiscalise_invoice: post a note *)
(* on the invoice and raise the user-facing error                         *)
Fail(a, stage, o, r) ==
    /\ notes' = [notes EXCEPT ![loc[a].invoice] = @ + 1]
    /\ inv' = [inv EXCEPT ![loc[a].invoice] = FailedInvoice(@, o)]
    /\ loc' = [loc EXCEPT ![a] = Failed(@, stage, o, r)]
    /\ pc' = [pc EXCEPT ![a] = "idle"]

(* Precondition without its first guard *)
Precondition_NoFiscalisedGuard(invoice, i) ==
    IF DeviceOf(docs[i].company_id) = NULL THEN "no device" ELSE "none"

(* Precondition testing the verification code instead of the flag *)
Precondition_ChecksVerificationCode(invoice, i) ==
    IF invoice.verification_code # NULL THEN "already fiscalised"
    ELSE IF DeviceOf(docs[i].company_id) = NULL THEN "no device"
    ELSE "none"

(* the guards of action_fiscalise_invoice: which UserError they raise *)
Precondition(invoice, i) ==
    IF invoice.fiscalised THEN "already fiscalised"
    ELSE IF DeviceOf(docs[i].company_id) = NULL THEN "no device"
    ELSE "none"

(* action_fiscalise_invoice, up to the try block *)
Fiscalise(a, i) ==
    /\ pc[a] = "idle"
    /\ calls < MaxCalls
    /\ calls' = calls + 1
    /\ IF Precondition(inv[i], i) # "none"
       THEN /\ loc' = [loc EXCEPT ![a] = [NewCall(i) EXCEPT !.result = "rejected",
                                              !.error = Text(Precondition(inv[i], i))]]
            /\ pc' = pc
       ELSE /\ loc' = [loc EXCEPT ![a] = NewCall(i)]
            /\ pc' = [pc EXCEPT ![a] = "prepare"]
    /\ UNCHANGED <<now, dev, inv, notes, receiptReqs, accepted, dayVars, auxVars>>

(* payload = self._prepare_fiscal_payload() *)
Prepare(a) ==
    /\ pc[a] = "prepare"
    /\ LET built == _prepare_fiscal_payload(docs[loc[a].invoice]) IN
       IF built.raises # "none"
       THEN Fail(a, "payload", NoOutcome, [NoError EXCEPT !.error = built.error])
       ELSE /\ pc' = [pc EXCEPT ![a] = "refresh"]
            /\ loc' = [loc EXCEPT ![a].payload = built.payload]
            /\ UNCHANGED <<notes, inv>>
    /\ UNCHANGED <<now, dev, calls, receiptReqs, accepted, dayVars, auxVars>>

(* _refresh_token_if_needed: decide, and send the token request if needed *)
Refresh(a) ==
    /\ pc[a] = "refresh"
    /\ LET device == dev[TheDevice(a)]
           seen == [loc[a] EXCEPT !.check_now = now, !.check_expiry = device.token_expiry]
       IN IF NeedsRefresh(device)
          THEN /\ loc' = [loc EXCEPT ![a] = [seen EXCEPT !.reqs = Append(@, "token")]]
               /\ pc' = [pc EXCEPT ![a] = "token_wait"]
          ELSE /\ loc' = [loc EXCEPT ![a] = seen]
               /\ pc' = [pc EXCEPT ![a] = "primary"]
    /\ UNCHANGED <<now, dev, inv, notes, calls, receiptReqs, accepted, dayVars, auxVars>>

(* the token request returns or raises: the rest of _get_new_token *)
TokenReply(a, o) ==
    /\ pc[a] = "token_wait"
    /\ LET d == TheDevice(a)
           r == _get_new_token(dev[d], o)
       IN /\ dev' = [dev EXCEPT ![d] = r.device]
          /\ IF r.raised
             THEN Fail(a, "token", o, r)
             ELSE /\ loc' = [loc EXCEPT ![a].token_reply = o]
                  /\ pc' = [pc EXCEPT ![a] = "primary"]
                  /\ UNCHANGED <<notes, inv>>
    /\ UNCHANGED <<now, calls, receiptReqs, accepted, dayVars, auxVars>>

(* requests.request(method, endpoint, headers=self._get_auth_headers()) *)
PrimarySend(a) ==
    /\ pc[a] = "primary"
    /\ loc' = [loc EXCEPT ![a].reqs = Append(@, "primary")]
    /\ receiptReqs' = [receiptReqs EXCEPT ![loc[a].invoice] = @ + 1]
    /\ pc' = [pc EXCEPT ![a] = "primary_wait"]
    /\ UNCHANGED <<now, dev, inv, notes, calls, accepted, dayVars, auxVars>>

(* the receipt request returns or raises: the rest of _api_request, then  *)
(* _process_fiscal_response or the except clause of the action            *)
PrimaryReply(a, o, json_error_is_request_exception) ==
    /\ pc[a] = "primary_wait"
    /\ LET d == TheDevice(a)
           i == loc[a].invoice
           r == _api_request_primary(dev[d], o, json_error_is_request_exception)
       IN /\ dev' = [dev EXCEPT ![d] = r.device]
          /\ accepted' = [accepted EXCEPT ![i] = IF o.kind = "ok" THEN @ + 1 ELSE @]
          /\ IF r.raised
             THEN Fail(a, "primary", o, r)
             ELSE IF o.body.kind # "object"
             THEN Fail(a, "process", o, [NoError EXCEPT !.error = AttributeErrorText])
             ELSE /\ inv' = [inv EXCEPT ![i] = _process_fiscal_response(inv[i], o.body.json)]
                  /\ loc' = [loc EXCEPT ![a].result = "ok", ![a].stage = "done",
                                        ![a].outcome = o]
                  /\ pc' = [pc EXCEPT ![a] = "idle"]
                  /\ notes' = notes
    /\ UNCHANGED <<now, calls, receiptReqs, dayVars, auxVars>>

(* time passes *)
Tick ==
    /\ now < MaxNow
    /\ now' = now + 1
    /\ UNCHANGED <<dev, inv, notes, pc, loc, calls, receiptReqs, accepted, dayVars, auxVars>>

Next ==
    \/ \E a \in Sequential, i \in Invoices : Fiscalise(a, i)
    \/ \E a \in Sequential : Prepare(a)
    \/ \E a \in Sequential : Refresh(a)
    \/ \E a \in Sequential, o \in TokenOutcomes : TokenReply(a, o)
    \/ \E a \in Sequential : PrimarySend(a)
    \/ \E a \in Sequential, o \in ReceiptOutcomes, v \in BOOLEAN : PrimaryReply(a, o, v)
    \/ Tick

Spec == Init /\ [][Next]_vars

(* Two sessions working on the same invoice at once.  The remote service *)
(* answers from a reduced set; the clock stands still.                    *)
RaceTokenOutcomes ==
    { Raised("ReadTimeout"),
      Ok(Object([access_token |-> "tokA", refresh_token |-> "refA", expires_in |-> 1])) }

RaceReceiptOutcomes ==
    { Raised("ReadTimeout"),
      HttpError([status |-> 400, body |-> Object([errorCode |-> "RCPT013", title |-> "Duplicate invoice",
                                                  operationID |-> "op-1", status |-> 409])]),
      Ok(Object([receiptFiscalDate |-> FiscalDate(1, TRUE, TRUE), qrCodeUrl |-> "qr-1",
                 deviceID |-> "7", receiptGlobalNo |-> "100", receiptNumber |-> "1",
                 fiscalDayNo |-> "12", verificationCode |-> "VC-1"])) }

NextRace ==
    \/ \E a \in Actors, i \in Invoices : Fiscalise(a, i)
    \/ \E a \in Actors : Prepare(a)
    \/ \E a \in Actors : Refresh(a)
    \/ \E a \in Actors, o \in RaceTokenOutcomes : TokenReply(a, o)
    \/ \E a \in Actors : PrimarySend(a)
    \/ \E a \in Actors, o \in RaceReceiptOutcomes : PrimaryReply(a, o, TRUE)

SpecRace == Init /\ [][NextRace]_vars


(* ------------------------- payload construction ----------------------- *)
(* The action on an invoice drawn from a set of invoices: every sequence  *)
(* of up to MaxLines lines of the kinds below, of every move type, with   *)
(* and without a customer.  The remote service answers from the reduced   *)
(* sets; the clock stands still.                                          *)
MaxLines == 2        \* lines of a drawn invoice: 0..MaxLines

LineKinds ==
    { Line(2, "product", "prodA", "HS1", << Tax(TRUE, 15) >>, 10, 0, "Widget"),
      Line(1, "product", "prodB", "HS2", << Tax(FALSE, 15), Tax(TRUE, 1) >>, 20, 50, "Gadget"),
      Line(1, "product", "prodC", NULL, << Tax(TRUE, 15) >>, 5, 0, "Gizmo"),
      Line(1, "product", "prodD", NULL, << Tax(TRUE, 15) >>, 8, 0, "Doohickey"),
      Line(0, "product", "prodB", "HS2", << Tax(FALSE, 15) >>, 20, 0, "Free sample"),
      Line(1, "line_section", NULL, NULL, << >>, 0, 0, "Section"),
      Line(3, NULL, "prodA", "HS1", << >>, 10, 10, "Untaxed") }

LineSeqs == UNION { [1..n -> LineKinds] : n \in 0..MaxLines }

Moves ==
    { [company_id |-> "c1", move_type |-> move_type, partner_id |-> partner_id,
       amount_total |-> 23, lines |-> lines] :
          move_type \in {"out_invoice", "out_refund", "in_refund"},
          partner_id \in {NULL} \cup DOMAIN partnerData,
          lines \in LineSeqs }

InitPayload ==
    /\ now = 0
    /\ dev = [d \in Devices |-> NewDevice]
    /\ inv = [i \in Invoices |-> NewInvoice(i)]
    /\ notes = [i \in Invoices |-> 0]
    /\ pc = [a \in Actors |-> "idle"]
    /\ loc = [a \in Actors |-> [NewCall("INV1") EXCEPT !.result = "none", !.fiscalised_at_check = FALSE]]
    /\ calls = 0
    /\ receiptReqs = [i \in Invoices |-> 0]
    /\ accepted = [i \in Invoices |-> 0]
    /\ docs \in { [invoiceData EXCEPT !["INV1"] = move] : move \in Moves }
    /\ job = NoJob
    /\ dayReqs = [d \in Devices |-> NoRequests]
    /\ devnotes = [d \in Devices |-> 0]
    /\ dayOp = NoDayOp
    /\ ops = 0
    /\ parsed = NoParse
    /\ registry = DeviceRows
    /\ schedule = NoSchedule

NextPayload ==
    \/ \E a \in Sequential : Fiscalise(a, "INV1")
    \/ \E a \in Sequential : Prepare(a)
    \/ \E a \in Sequential : Refresh(a)
    \/ \E a \in Sequential, o \in RaceTokenOutcomes : TokenReply(a, o)
    \/ \E a \in Sequential : PrimarySend(a)
    \/ \E a \in Sequential, o \in RaceReceiptOutcomes : PrimaryReply(a, o, TRUE)

SpecPayload == InitPayload /\ [][NextPayload]_vars

(* ------------------------- fiscal day operations ---------------------- *)
(* One device operation (token check, token request, primary request and  *)
(* the writes that follow) is one step: no other operation runs on the    *)
(* devices while a scheduled job walks through its batch.                 *)
MaxOps == 1          \* buttons pressed and scheduled jobs started in a run

(* what the remote service answers in these runs *)
BatchTokenOutcomes ==
    { Raised("ReadTimeout"),
      Ok(Object([access_token |-> "tokA", refresh_token |-> "refA", expires_in |-> 1])) }

DayFailures == { HttpError([status |-> 500, body |-> NonJson]) }

OpenOutcomes ==
    DayFailures \cup { Ok(Object([fiscalDayNo |-> 13])), Ok(Object([operationID |-> "op-2"])) }

CloseOutcomes ==
    DayFailures
    \cup { Ok(Object([fiscalDayStatus |-> "FISCALDAYCLOSED", fiscalDayNo |-> "12",
                      lastReceiptNo |-> 7])),
           Ok(Object([fiscalDayStatus |-> "FISCALDAYCLOSEFAILED", fiscalDayNo |-> "12",
                      lastReceiptGlobalNo |-> 107, lastReceiptNo |-> 7])) }

StatusOutcomes ==
    DayFailures
    \cup { Ok(Object([fiscalDayStatus |-> "FISCALDAYOPENED", lastReceiptGlobalNo |-> 105,
                      lastReceiptNo |-> 5, lastFiscalDayNo |-> "12"])),
           Ok(Object([fiscalDayStatus |-> "FISCALDAYCLOSED", lastReceiptGlobalNo |-> 107,
                      lastReceiptNo |-> 7, lastFiscalDayNo |-> "12",
                      fiscalDayCounters |-> <<"c1">>])) }

PrimaryOutcomes(op) ==
    CASE op = "open" -> OpenOutcomes
      [] op = "close" -> CloseOutcomes
      [] op = "status" -> StatusOutcomes
      [] OTHER -> { NoOutcome }

(* a write of fiscal_day_status recomputes the stored is_day_open *)
Stored(device) ==
    [device EXCEPT !.is_day_open = _compute_is_day_open(device.fiscal_day_status)]

(* _refresh_token_if_needed *)
_refresh_token_if_needed(device, to) ==
    IF NeedsRefresh(device)
    THEN _get_new_token(device, to)
    ELSE [raised |-> FALSE, device |-> device, error |-> << >>, error_data |-> NoErrorData]

(* _api_request: token check, then the primary request.  sent tells       *)
(* whether the primary request went out, body is what it returned.        *)
(* what _api_request returns or raises once the primary call ended as r *)
AfterPrimary(r, po) ==
    [raised |-> r.raised, device |-> r.device, error |-> r.error, sent |-> TRUE,
     body |-> IF r.raised THEN NonJson ELSE po.body]

(* _api_request after _refresh_token_if_needed ended as t: a failed token *)
(* check raises before the request is sent                               *)
AfterTokenCheck(t, po) ==
    IF t.raised
    THEN [raised |-> TRUE, device |-> t.device, error |-> t.error, sent |-> FALSE,
          body |-> NonJson]
    ELSE AfterPrimary(_api_request_primary(t.device, po, TRUE), po)

_api_request(device, to, po) == AfterTokenCheck(_refresh_token_if_needed(device, to), po)

(* OpenDayWrite that does not stamp last_operation *)
OpenDayWrite_NoStamp(device, response) ==
    Stored([device EXCEPT !.fiscal_day_no = ToString(response["fiscalDayNo"]),
                          !.fiscal_day_status = "FISCALDAYOPENED"])

(* the write of action_open_day / cron_auto_open_fiscal_day *)
OpenDayWrite(device, response) ==
    Stored([device EXCEPT !.fiscal_day_no = ToString(response["fiscalDayNo"]),
                          !.fiscal_day_status = "FISCALDAYOPENED",
                          !.last_operation = now])

(* CloseDayWrite taking every successful close for a closed day *)
CloseDayWrite_AlwaysClosed(device, response) ==
    Stored([device EXCEPT !.fiscal_day_status = "FISCALDAYCLOSED",
                          !.last_receipt_global_no = Get(response, "lastReceiptGlobalNo", 0),
                          !.fiscal_day_no = Get(response, "fiscalDayNo", NULL),
                          !.last_operation = now])

(* the write of action_close_day / cron_auto_close_fiscal_day; an Integer *)
(* field written None reads 0                                             *)
CloseDayWrite(device, response) ==
    Stored([device EXCEPT !.fiscal_day_status = Get(response, "fiscalDayStatus", NULL),
                          !.last_receipt_global_no = Get(response, "lastReceiptGlobalNo", 0),
                          !.fiscal_day_no = Get(response, "fiscalDayNo", NULL),
                          !.last_operation = now])

_process_status_response(device, response) ==
    Stored([device EXCEPT !.fiscal_day_status = Get(response, "fiscalDayStatus", NULL),
                          !.last_receipt_global_no = Get(response, "lastReceiptGlobalNo", 0),
                          !.last_receipt_no = Get(response, "lastReceiptNo", 0),
                          !.fiscal_day_counters = Get(response, "fiscalDayCounters", << >>),
                          !.last_status_check = now,
                          !.fiscal_day_no = Get(response, "lastFiscalDayNo", NULL)])

(* the body of the try block of a button or of one turn of a job's loop:  *)
(* result is "ok", "failed" for a UserError, "crashed" for any other      *)
(* exception (the KeyError of response['fiscalDayNo'])                    *)
(* one turn of _cron_refresh_tokens after the token check ended as t *)
RefreshResult(t) ==
    [device |-> t.device, result |-> IF t.raised THEN "failed" ELSE "ok",
     sent |-> FALSE, error |-> t.error]

(* what a handler does with the outcome r of its _api_request *)
RequestResult(op, r) ==
    IF r.raised
    THEN [device |-> r.device, result |-> "failed", sent |-> r.sent, error |-> r.error]
    ELSE IF op = "open" /\ "fiscalDayNo" \notin DOMAIN r.body.json
    THEN [device |-> r.device, result |-> "crashed", sent |-> TRUE,
          error |-> Text("'fiscalDayNo'")]
    ELSE [device |-> CASE op = "open" -> OpenDayWrite(r.device, r.body.json)
                       [] op = "close" -> CloseDayWrite(r.device, r.body.json)
                       [] OTHER -> _process_status_response(r.device, r.body.json),
          result |-> "ok", sent |-> TRUE, error |-> << >>]

DeviceOperation(op, device, to, po) ==
    IF op = "refresh"
    THEN RefreshResult(_refresh_token_if_needed(device, to))
    ELSE RequestResult(op, _api_request(device, to, po))

Requested(requests, d, op, r) ==
    IF r.sent THEN [requests EXCEPT ![d][op] = @ + 1] ELSE requests

(* an operation asks for a token only when the device needs one *)
TokenInputs(device) == IF NeedsRefresh(device) THEN BatchTokenOutcomes ELSE { NoOutcome }

(* action_open_day, action_close_day, action_check_status: the buttons.   *)
(* They catch UserError only.                                             *)
(* the state a button leaves after its operation ended as r *)
ButtonEffect(op, d, po, r) ==
    /\ dev' = [dev EXCEPT ![d] = r.device]
    /\ dayReqs' = Requested(dayReqs, d, op, r)
    /\ dayOp' = [op |-> op, device |-> d, source |-> "button", reply |-> po,
                 result |-> r.result, sent |-> r.sent]

Button(op, d, to, po) ==
    /\ job.todo = << >>
    /\ ops < MaxOps
    /\ ops' = ops + 1
    /\ ButtonEffect(op, d, po, DeviceOperation(op, dev[d], to, po))
    /\ UNCHANGED <<now, inv, notes, pc, loc, calls, receiptReqs, accepted, docs, job, devnotes,
                 auxVars>>

action_open_day(d) ==
    \E to \in TokenInputs(dev[d]), po \in OpenOutcomes : Button("open", d, to, po)

action_close_day(d) ==
    \E to \in TokenInputs(dev[d]), po \in CloseOutcomes : Button("close", d, to, po)

action_check_status(d) ==
    \E to \in TokenInputs(dev[d]), po \in StatusOutcomes : Button("status", d, to, po)

(* the time windows of the two day jobs *)
InOpenWindow(hour, minute) == hour = 0 /\ minute < 30

InCloseWindow(hour, minute) == (hour = 23 /\ minute >= 30) \/ (hour = 0 /\ minute = 0)

(* the readings of fields.Datetime.now() a job starts at *)
Clocks == { <<0, 0>>, <<0, 15>>, <<12, 0>>, <<23, 45>> }

(* search(domain) on fiscal_day_status; the empty domain finds every device *)
search(fiscal_day_status) ==
    SelectSeq(DeviceOrder,
              LAMBDA d : fiscal_day_status = NULL \/ dev[d].fiscal_day_status = fiscal_day_status)

(* CronBatch opening and closing whatever device there is *)
CronBatch_EveryDevice(name, clock) ==
    CASE name = "open" -> IF InOpenWindow(clock[1], clock[2]) THEN search(NULL) ELSE << >>
      [] name = "close" -> IF InCloseWindow(clock[1], clock[2]) THEN search(NULL) ELSE << >>
      [] OTHER -> search(NULL)

(* the devices a job loops over *)
CronBatch(name, clock) ==
    CASE name = "open" ->
           IF InOpenWindow(clock[1], clock[2]) THEN search("FISCALDAYCLOSED") ELSE << >>
      [] name = "close" ->
           IF InCloseWindow(clock[1], clock[2]) THEN search("FISCALDAYOPENED") ELSE << >>
      [] OTHER -> search(NULL)

(* the endpoint operation of each job *)
CronJobs == {"status", "refresh", "open", "close"}

(* a job is started by the scheduler: cron_check_device_status,           *)
(* _cron_refresh_tokens, cron_auto_open_fiscal_day,                       *)
(* cron_auto_close_fiscal_day up to their loop                            *)
CronStart(name, clock) ==
    /\ job.todo = << >>
    /\ ops < MaxOps
    /\ ops' = ops + 1
    /\ job' = [name |-> name, batch |-> CronBatch(name, clock),
               todo |-> CronBatch(name, clock), done |-> << >>, raised |-> FALSE]
    /\ UNCHANGED <<now, dev, inv, notes, pc, loc, calls, receiptReqs, accepted, docs, dayReqs,
                   devnotes, dayOp, auxVars>>

(* AfterDevice of a loop that catches UserError only *)
AfterDevice_OnlyUserError(todo, result) ==
    IF result = "crashed" THEN [todo |-> << >>, raised |-> TRUE]
    ELSE [todo |-> Tail(todo), raised |-> FALSE]

(* the try / except Exception around each device of a job: what is left   *)
(* of the batch afterwards and whether the exception leaves the job       *)
AfterDevice(todo, result) == [todo |-> Tail(todo), raised |-> FALSE]

(* the except clauses of cron_check_device_status and _cron_refresh_tokens *)
(* post a note on the device; those of the two day jobs only log           *)
PostsNote(name, result) == name \in {"status", "refresh"} /\ result # "ok"

(* one turn of the loop of the running job *)
(* the state one turn of a job's loop leaves after the operation on       *)
(* device d ended as r                                                    *)
LoopEffect(d, po, r, after) ==
    /\ dev' = [dev EXCEPT ![d] = r.device]
    /\ dayReqs' = IF job.name = "refresh" THEN dayReqs
                  ELSE Requested(dayReqs, d, job.name, r)
    /\ devnotes' = [devnotes EXCEPT ![d] = IF PostsNote(job.name, r.result) THEN @ + 1 ELSE @]
    /\ dayOp' = [op |-> job.name, device |-> d, source |-> "cron", reply |-> po,
                 result |-> r.result, sent |-> r.sent]
    /\ job' = [job EXCEPT !.todo = after.todo, !.raised = after.raised,
                           !.done = Append(@, r.result)]

LoopTurn(d, po, r) == LoopEffect(d, po, r, AfterDevice(job.todo, r.result))

CronStep(to, po) ==
    /\ job.todo # << >>
    /\ to \in TokenInputs(dev[Head(job.todo)])
    /\ po \in PrimaryOutcomes(job.name)
    /\ LoopTurn(Head(job.todo), po, DeviceOperation(job.name, dev[Head(job.todo)], to, po))
    /\ UNCHANGED <<now, inv, notes, pc, loc, calls, receiptReqs, accepted, docs, ops, auxVars>>

(* the statuses the devices can have been left in by earlier status checks *)
DayStatuses == {NULL, "FISCALDAYOPENED", "FISCALDAYCLOSED"}

(* the answer of the earlier status check that reported the status *)
EarlierStatus(fiscal_day_status) ==
    CHOOSE o \in StatusOutcomes :
        o.kind = "ok" /\ o.body.json["fiscalDayStatus"] = fiscal_day_status

(* the device as that status check left it: status, counters, day number *)
WithStatus(device, fiscal_day_status) ==
    IF fiscal_day_status = NULL THEN device
    ELSE _process_status_response(device, EarlierStatus(fiscal_day_status).body.json)

(* d2 starts with a token that is still valid, d1 and d3 with none *)
WithToken(device, d) ==
    IF d = "d2"
    THEN [device EXCEPT !.access_token = "tok0", !.refresh_token = "ref0", !.token_expiry = 1]
    ELSE device

InitDay ==
    /\ now = 0
    /\ dev \in { [d \in Devices |-> WithToken(WithStatus(NewDevice, st[d]), d)] :
                     st \in [Devices -> DayStatuses] }
    /\ inv = [i \in Invoices |-> NewInvoice(i)]
    /\ notes = [i \in Invoices |-> 0]
    /\ pc = [a \in Actors |-> "idle"]
    /\ loc = [a \in Actors |-> [NewCall("INV1") EXCEPT !.result = "none", !.fiscalised_at_check = FALSE]]
    /\ calls = 0
    /\ receiptReqs = [i \in Invoices |-> 0]
    /\ accepted = [i \in Invoices |-> 0]
    /\ docs = invoiceData
    /\ job = NoJob
    /\ dayReqs = [d \in Devices |-> NoRequests]
    /\ devnotes = [d \in Devices |-> 0]
    /\ dayOp = NoDayOp
    /\ ops = 0
    /\ parsed = NoParse
    /\ registry = DeviceRows
    /\ schedule = NoSchedule

NextDay ==
    \/ \E d \in Devices : action_open_day(d)
    \/ \E d \in Devices : action_close_day(d)
    \/ \E d \in Devices : action_check_status(d)
    \/ \E name \in CronJobs, clock \in Clocks : CronStart(name, clock)
    \/ \E to \in BatchTokenOutcomes \cup { NoOutcome },
          po \in OpenOutcomes \cup CloseOutcomes \cup StatusOutcomes \cup { NoOutcome } :
          CronStep(to, po)

SpecDay == InitDay /\ [][NextDay]_vars

(* a job that was started runs its loop to the end: every round trip is   *)
(* bounded by the timeout                                                 *)
SpecDayFair ==
    SpecDay /\ WF_vars(\E to \in BatchTokenOutcomes \cup { NoOutcome },
                          po \in OpenOutcomes \cup CloseOutcomes \cup StatusOutcomes \cup { NoOutcome } :
                          CronStep(to, po))


(* ------------------------- the scheduler's minute --------------------- *)
MaxTicks == 1        \* minutes the scheduler's clock moves on in a run

(* the readings of fields.Datetime.now() at the edges of the two windows *)
Hours == {0, 12, 23}
Minutes == {0, 1, 29, 30, 59}

NextMinute(clock) ==
    IF clock[2] = 59 THEN <<(clock[1] + 1) % 24, 0>> ELSE <<clock[1], clock[2] + 1>>

(* the two day jobs *)
DayJobs == {"open", "close"}

(* the status changes of device d in this minute, after one more operation *)
Transition(moved, d, before, after) ==
    IF after.fiscal_day_status # before.fiscal_day_status
    THEN [moved EXCEPT ![d] = Append(@, after.fiscal_day_status)]
    ELSE moved

InitSchedule ==
    /\ now = 0
    /\ dev \in { [d \in Devices |-> WithToken(WithStatus(NewDevice, st[d]), d)] :
                     st \in [Devices -> DayStatuses] }
    /\ inv = [i \in Invoices |-> NewInvoice(i)]
    /\ notes = [i \in Invoices |-> 0]
    /\ pc = [a \in Actors |-> "idle"]
    /\ loc = [a \in Actors |-> [NewCall("INV1") EXCEPT !.result = "none", !.fiscalised_at_check = FALSE]]
    /\ calls = 0
    /\ receiptReqs = [i \in Invoices |-> 0]
    /\ accepted = [i \in Invoices |-> 0]
    /\ docs = invoiceData
    /\ job = NoJob
    /\ dayReqs = [d \in Devices |-> NoRequests]
    /\ devnotes = [d \in Devices |-> 0]
    /\ dayOp = NoDayOp
    /\ ops = 0
    /\ parsed = NoParse
    /\ registry = DeviceRows
    /\ schedule \in { [NoSchedule EXCEPT !.clock = <<hour, minute>>] :
                          hour \in Hours, minute \in Minutes }

(* the scheduler invokes cron_auto_open_fiscal_day or                     *)
(* cron_auto_close_fiscal_day, each at most once a minute; the method     *)
(* reads the clock and searches its devices                               *)
ScheduledStart(name) ==
    /\ job.todo = << >>
    /\ name \notin schedule.started
    /\ job' = [name |-> name, batch |-> CronBatch(name, schedule.clock),
               todo |-> CronBatch(name, schedule.clock), done |-> << >>, raised |-> FALSE]
    /\ schedule' = [schedule EXCEPT !.started = @ \cup {name}]
    /\ UNCHANGED <<now, dev, inv, notes, pc, loc, calls, receiptReqs, accepted, docs, dayReqs,
                   devnotes, dayOp, ops, parsed, registry>>

(* one turn of the loop of the day job that is running *)
ScheduledTurn(d, po, r) ==
    /\ LoopTurn(d, po, r)
    /\ schedule' = [schedule EXCEPT !.moved = Transition(@, d, dev[d], r.device)]

ScheduledStep(to, po) ==
    /\ job.todo # << >>
    /\ to \in TokenInputs(dev[Head(job.todo)])
    /\ po \in PrimaryOutcomes(job.name)
    /\ ScheduledTurn(Head(job.todo), po,
                     DeviceOperation(job.name, dev[Head(job.todo)], to, po))
    /\ UNCHANGED <<now, inv, notes, pc, loc, calls, receiptReqs, accepted, docs, ops, parsed,
                   registry>>

(* the next minute begins once the running job has ended: a job makes at  *)
(* most two round trips per device, each bounded by the timeout           *)
MinuteEnds ==
    /\ job.todo = << >>
    /\ schedule.ticks < MaxTicks
    /\ schedule' = [clock |-> NextMinute(schedule.clock), started |-> { },
                    moved |-> [d \in Devices |-> << >>], ticks |-> schedule.ticks + 1]
    /\ UNCHANGED <<now, dev, inv, notes, pc, loc, calls, receiptReqs, accepted, dayVars,
                   parsed, registry>>

NextSchedule ==
    \/ \E name \in DayJobs : ScheduledStart(name)
    \/ \E to \in BatchTokenOutcomes \cup { NoOutcome },
          po \in OpenOutcomes \cup CloseOutcomes \cup { NoOutcome } :
          ScheduledStep(to, po)
    \/ MinuteEnds

SpecSchedule == InitSchedule /\ [][NextSchedule]_vars


(* ------------------------- error classification ----------------------- *)
MaxFieldErrors == 2  \* entries of the errors object of a drawn answer: 0..MaxFieldErrors

(* key: value, or nothing when the answer leaves the key out *)
NoKeys == [k \in { } |-> k]
Optional(key, values) == { NoKeys } \cup { key :> v : v \in values }

(* entries of the errors object of a validation answer, in dict order *)
FieldErrors ==
    { <<"buyerTIN", <<"required">> >>, <<"deviceID", <<"invalid", "unknown">> >>,
      <<"receiptTotal", <<"mismatch">> >> }

ErrorLists ==
    { e \in UNION { [1..n -> FieldErrors] : n \in 0..MaxFieldErrors } :
          \A i, j \in DOMAIN e : i # j => e[i][1] # e[j][1] }

(* FDMS problem details: every key may be left out *)
ProblemDetails ==
    { Object(c @@ t @@ d @@ ti @@ o @@ st @@ e) :
          c \in Optional("errorCode", {"MISSING_REQUIRED_FIELD", "RCPT013"}),
          t \in Optional("type", {"unauthorized"}),
          d \in Optional("detail", {"x"}),
          ti \in Optional("title", {"Duplicate invoice"}),
          o \in Optional("operationID", {"op-1"}),
          st \in Optional("status", {409}),
          e \in Optional("errors", ErrorLists) }

HttpErrors ==
    { [status |-> status, body |-> body] :
          status \in {400, 422, 500},
          body \in ProblemDetails \cup { NonJson, NonObject } }

InitClassify ==
    /\ now = 0
    /\ dev = [d \in Devices |-> NewDevice]
    /\ inv = [i \in Invoices |-> NewInvoice(i)]
    /\ notes = [i \in Invoices |-> 0]
    /\ pc = [a \in Actors |-> "idle"]
    /\ loc = [a \in Actors |-> [NewCall("INV1") EXCEPT !.result = "none", !.fiscalised_at_check = FALSE]]
    /\ calls = 0
    /\ receiptReqs = [i \in Invoices |-> 0]
    /\ accepted = [i \in Invoices |-> 0]
    /\ docs = invoiceData
    /\ job = NoJob
    /\ dayReqs = [d \in Devices |-> NoRequests]
    /\ devnotes = [d \in Devices |-> 0]
    /\ dayOp = NoDayOp
    /\ ops = 0
    /\ parsed \in { [NoParse EXCEPT !.response = r] : r \in HttpErrors }
    /\ registry = DeviceRows
    /\ schedule = NoSchedule

(* error_data = self._parse_error_response(e) *)
ParseErrorResponse ==
    /\ ~parsed.done
    /\ parsed' = [parsed EXCEPT
                    !.done = TRUE,
                    !.error_data = _parse_error_response(parsed.response.status,
                                                         parsed.response.body)]
    /\ UNCHANGED <<now, dev, inv, notes, pc, loc, calls, receiptReqs, accepted, dayVars,
                   registry, schedule>>

NextClassify == ParseErrorResponse

SpecClassify == InitClassify /\ [][NextClassify]_vars


(* ------------------------- device registration ------------------------ *)
MaxCreates == 3      \* fiscal.device records created in a run

Companies == {"c1", "c2", "c3"}
DeviceIds == {7, 8}

(* _sql_constraints: unique(company_id, device_id) accepts the new row *)
company_device_unique(rows, row) ==
    \A n \in 1..Len(rows) :
        ~(rows[n].company_id = row.company_id /\ rows[n].device_id = row.device_id)

(* search([('company_id', '=', company)]): the matching rows in id order; *)
(* limit=1 takes the first                                                *)
search_company(rows, company) == SelectSeq(rows, LAMBDA row : row.company_id = company)

InitCreate ==
    /\ now = 0
    /\ dev = [d \in Devices |-> NewDevice]
    /\ inv = [i \in Invoices |-> NewInvoice(i)]
    /\ notes = [i \in Invoices |-> 0]
    /\ pc = [a \in Actors |-> "idle"]
    /\ loc = [a \in Actors |-> [NewCall("INV1") EXCEPT !.result = "none", !.fiscalised_at_check = FALSE]]
    /\ calls = 0
    /\ receiptReqs = [i \in Invoices |-> 0]
    /\ accepted = [i \in Invoices |-> 0]
    /\ docs = invoiceData
    /\ job = NoJob
    /\ dayReqs = [d \in Devices |-> NoRequests]
    /\ devnotes = [d \in Devices |-> 0]
    /\ dayOp = NoDayOp
    /\ ops = 0
    /\ parsed = NoParse
    /\ registry = << >>
    /\ schedule = NoSchedule

(* a fiscal.device record is created: the database accepts the row when   *)
(* the constraint holds (it rejects the others, which changes nothing)    *)
create(company_id, device_id) ==
    /\ Len(registry) < MaxCreates
    /\ company_device_unique(registry, [company_id |-> company_id, device_id |-> device_id])
    /\ registry' = Append(registry, [company_id |-> company_id, device_id |-> device_id])
    /\ UNCHANGED <<now, dev, inv, notes, pc, loc, calls, receiptReqs, accepted, dayVars,
                   parsed, schedule>>

NextCreate == \E company_id \in Companies, device_id \in DeviceIds : create(company_id, device_id)

SpecCreate == InitCreate /\ [][NextCreate]_vars


(* =============================== claims =============================== *)
HasDevice(i) == DeviceOf(docs[i].company_id) # NULL

Sent(a, kind) == \E n \in 1..Len(loc[a].reqs) : loc[a].reqs[n] = kind

(* C1: an invocation of action_fiscalise_invoice on an invoice that is    *)
(* already fiscalised, or whose company has no fiscal device, ends at     *)
(* once as rejected, has issued no HTTP request (neither token nor        *)
(* receipt) and changes no invoice field, no device field and no note.    *)
C1_RejectedWithoutEffect ==
    [][\A a \in Sequential, i \in Invoices :
          (calls' = calls + 1 /\ loc'[a].invoice = i /\ (inv[i].fiscalised \/ ~HasDevice(i)))
          => /\ loc'[a].result = "rejected"
             /\ loc'[a].reqs = << >>
             /\ pc'[a] = "idle"
             /\ UNCHANGED <<inv, dev, notes, receiptReqs, accepted>>]_vars

C1_Witness ==
    \E a \in Sequential :
        /\ loc[a].result = "rejected"
        /\ loc[a].fiscalised_at_check
        /\ inv[loc[a].invoice].fiscalised
        /\ receiptReqs[loc[a].invoice] = 1

(* C2 as stated: once a receipt request for an invoice has been accepted  *)
(* by the remote service, no further receipt request for that invoice is  *)
(* sent, also when two sessions run the action on it at the same time.    *)
C2_AtMostOnceUnderRace ==
    [][\A i \in Invoices : accepted[i] >= 1 => receiptReqs'[i] = receiptReqs[i]]_vars

(* C2 amended: a receipt request is only sent by an invocation whose      *)
(* first guard read fiscalised = false, so an invocation that starts      *)
(* after the invoice was marked fiscalised sends none; invocations that   *)
(* overlap may each send one.                                             *)
C2_SentOnlyIfGuardSawUnfiscalised ==
    \A a \in Actors : Sent(a, "primary") => ~loc[a].fiscalised_at_check

C2_Witness ==
    /\ inv["INV1"].fiscalised
    /\ accepted["INV1"] >= 1
    /\ receiptReqs["INV1"] = 2
    /\ \A a \in Actors : loc[a].invoice = "INV1" /\ Sent(a, "primary")

(* C3: a submission attempt that fails (payload error, token failure,     *)
(* transport failure, non-2xx answer) writes no invoice field: fiscalised *)
(* stays false and the precondition check passes again; fiscalised turns  *)
(* true only in the step that handles a 2xx answer of the receipt         *)
(* endpoint.                                                              *)
C3_FailureLeavesInvoiceRetryable ==
    [][/\ \A a \in Sequential :
             (loc[a].result = "running" /\ loc'[a].result = "failed")
             => /\ inv' = inv
                /\ ~inv'[loc[a].invoice].fiscalised
                /\ Precondition(inv'[loc[a].invoice], loc[a].invoice) = "none"
       /\ \A i \in Invoices :
             (~inv[i].fiscalised /\ inv'[i].fiscalised)
             => \E a \in Sequential :
                   /\ pc[a] = "primary_wait" /\ loc[a].invoice = i
                   /\ loc'[a].result = "ok" /\ loc'[a].outcome.kind = "ok"
                   /\ accepted'[i] = accepted[i] + 1]_vars

C3_Witness ==
    \E a \in Sequential :
        /\ loc[a].result = "failed"
        /\ loc[a].stage = "primary"
        /\ loc[a].outcome.kind = "http"
        /\ ~inv[loc[a].invoice].fiscalised
        /\ notes[loc[a].invoice] = 2

Count(a, kind) == Cardinality({ n \in 1..Len(loc[a].reqs) : loc[a].reqs[n] = kind })

TokenAcquired(a) == loc[a].token_reply.kind = "ok" /\ TokenBodyComplete(loc[a].token_reply.body)

(* C4: once _refresh_token_if_needed has run in a call: if token_expiry   *)
(* was unset or earlier than now, the call has issued exactly one token   *)
(* request and it precedes the primary request; if token_expiry was later *)
(* than now, the call issues no token request.                            *)
C4_TokenCallsMatchExpiry ==
    \A a \in Sequential :
        loc[a].check_now # Unset =>
            /\ (loc[a].check_expiry = Unset \/ loc[a].check_expiry < loc[a].check_now)
                   => loc[a].reqs \in { <<"token">>, <<"token", "primary">> }
            /\ (loc[a].check_expiry # Unset /\ loc[a].check_expiry > loc[a].check_now)
                   => loc[a].reqs \in { << >>, <<"primary">> }

C4_Witness ==
    \E a \in Sequential :
        /\ loc[a].check_expiry # Unset
        /\ loc[a].check_expiry < loc[a].check_now
        /\ loc[a].reqs = <<"token", "primary">>
        /\ loc[a].result = "ok"

(* C5: a call never issues its primary request with a token that is not   *)
(* valid: whenever now >= token_expiry at the check (equality included,   *)
(* or no expiry set), a successful token acquisition of the same call     *)
(* precedes the primary request.                                          *)
C5_PrimaryOnlyWithValidToken ==
    \A a \in Sequential :
        (Sent(a, "primary") /\ (loc[a].check_expiry = Unset \/ loc[a].check_now >= loc[a].check_expiry))
        => TokenAcquired(a)

(* C6: when the token request ends in anything but a complete 2xx answer, *)
(* the call fails in that step, issues no primary request, and            *)
(* access_token, refresh_token and token_expiry keep their values.        *)
C6_TokenFailureKeepsTokens ==
    [][\A a \in Sequential :
          (pc[a] = "token_wait" /\ pc'[a] # "token_wait"
           /\ ~(loc'[a].token_reply.kind = "ok" /\ TokenBodyComplete(loc'[a].token_reply.body)))
          => /\ loc'[a].result = "failed" /\ pc'[a] = "idle"
             /\ loc'[a].reqs = <<"token">>
             /\ receiptReqs' = receiptReqs
             /\ dev'[TheDevice(a)].access_token = dev[TheDevice(a)].access_token
             /\ dev'[TheDevice(a)].refresh_token = dev[TheDevice(a)].refresh_token
             /\ dev'[TheDevice(a)].token_expiry = dev[TheDevice(a)].token_expiry]_vars

C6_Witness ==
    \E a \in Sequential :
        /\ loc[a].result = "failed" /\ loc[a].stage = "token"
        /\ loc[a].outcome.kind = "exc"
        /\ dev[TheDevice(a)].access_token # NULL
        /\ dev[TheDevice(a)].token_expiry < now

(* C7: a 2xx answer of the token endpoint that lacks access_token,        *)
(* refresh_token or expires_in is recorded on the device with the error   *)
(* code INVALID_RESPONSE_STRUCTURE.                                       *)
C7_MissingFieldsSignal ==
    \A a \in Sequential :
        (/\ loc[a].result = "failed" /\ loc[a].stage = "token"
         /\ loc[a].outcome.kind = "ok" /\ loc[a].outcome.body.kind = "object")
        => dev[TheDevice(a)].last_error_code = "INVALID_RESPONSE_STRUCTURE"

(* C8: one invocation issues at most one token request and at most one    *)
(* primary request; the step in which it fails ends it, and an ended      *)
(* invocation issues no further request.                                  *)
C8_NoRetries ==
    [][\A a \in Sequential :
          /\ Count(a, "token")' <= 1
          /\ Count(a, "primary")' <= 1
          /\ (loc[a].result = "running" /\ pc[a] \in {"token_wait", "primary_wait"}
              /\ loc'[a].outcome.kind \in {"exc", "http"})
             => (loc'[a].result = "failed" /\ pc'[a] = "idle" /\ loc'[a].reqs = loc[a].reqs)
          /\ (loc[a].result # "running" /\ loc'[a].reqs # loc[a].reqs)
             => (calls' = calls + 1 /\ loc'[a].reqs = << >>)]_vars

C8_Witness ==
    \E a \in Sequential :
        /\ loc[a].result = "failed" /\ loc[a].stage = "primary"
        /\ loc[a].outcome.kind = "exc"
        /\ loc[a].reqs = <<"token", "primary">>

(* the code the classification prescribes for a transport failure *)
C9_TransportCode(e) ==
    IF e = "ConnectionError" THEN "CONNECTION_REFUSED"
    ELSE IF e \in {"ConnectTimeout", "ReadTimeout"} THEN "TIMEOUT"
    ELSE "CONNECTION_FAILED"

(* C9: a transport failure of the token request or of the primary request *)
(* is recorded with status 0 and the code CONNECTION_REFUSED for a        *)
(* refused connection, TIMEOUT for a timeout (a timeout while connecting  *)
(* included) and CONNECTION_FAILED for any other transport failure.       *)
C9_TransportClassification ==
    \A a \in Sequential :
        (loc[a].result = "failed" /\ loc[a].stage \in {"token", "primary"} /\ loc[a].outcome.kind = "exc")
        => /\ dev[TheDevice(a)].last_error_code = C9_TransportCode(loc[a].outcome.exc)
           /\ dev[TheDevice(a)].last_error_status = 0

(* C10: the step in which a device call fails (token request or primary   *)
(* request, whatever the failure) writes last_error_code,                 *)
(* last_error_message, last_error_status and last_status_check; a refused *)
(* connection leaves CONNECTION_REFUSED with status 0.                    *)
C10_EveryFailureLogged ==
    [][\A a \in Sequential :
          (loc[a].result = "running" /\ loc'[a].result = "failed"
           /\ loc'[a].stage \in {"token", "primary"})
          => /\ dev'[TheDevice(a)].last_status_check = now
             /\ dev'[TheDevice(a)].last_error_code # NULL
             /\ dev'[TheDevice(a)].last_error_message # << >>
             /\ (loc'[a].outcome.kind = "exc" /\ loc'[a].outcome.exc = "ConnectionError")
                => /\ dev'[TheDevice(a)].last_error_code = "CONNECTION_REFUSED"
                   /\ dev'[TheDevice(a)].last_error_status = 0]_vars


(* a text shows a piece when one of its lines holds it *)
Contains(text, piece) ==
    \E l \in 1..Len(text) : \E k \in 1..Len(text[l]) : text[l][k] = piece

ContainsMessage(text, message) ==
    \A l \in 1..Len(message) : \A k \in 1..Len(message[l]) : Contains(text, message[l][k])

(* an invocation that ended in a failure branch of _api_request that      *)
(* built a structured error                                               *)
DeviceCallFailed(a) ==
    /\ loc[a].result = "failed"
    /\ loc[a].stage \in {"token", "primary"}
    /\ loc[a].error_data.code # NULL

(* C11: for every failure branch of _api_request (token request or        *)
(* primary request), the text of the user-facing error it raises shows    *)
(* the code and the status of the structured error as well as its         *)
(* message.                                                               *)
C11_ErrorTextCarriesCodeAndStatus ==
    \A a \in Sequential :
        DeviceCallFailed(a)
        => /\ Contains(loc[a].api_error, loc[a].error_data.code)
           /\ Contains(loc[a].api_error, ToString(loc[a].error_data.status))
           /\ ContainsMessage(loc[a].api_error, loc[a].error_data.message)

(* C12: when the device call of action_fiscalise_invoice fails, a failure *)
(* note is posted on the invoice and the user-facing error the action     *)
(* raises shows the structured error code of the failure.                 *)
C12_FailureNoteAndCodedError ==
    [][\A a \in Sequential :
          (loc[a].result = "running" /\ DeviceCallFailed(a)')
          => /\ notes'[loc[a].invoice] = notes[loc[a].invoice] + 1
             /\ loc'[a].note # << >>
             /\ Contains(loc'[a].error, loc'[a].error_data.code)]_vars


(* C13 as stated: is_day_open is true only when the day is opened; it is  *)
(* false for the closed status and for every unknown, unset or other      *)
(* status value.                                                          *)
C13_OpenOnlyWhenOpened ==
    \A d \in Devices : dev[d].is_day_open => dev[d].fiscal_day_status = "FISCALDAYOPENED"

(* C13 amended: is_day_open is false exactly when fiscal_day_status is    *)
(* the closed status; for every other value (opened, unset, unknown) it   *)
(* is true.                                                               *)
C13_NotOpenIffClosed ==
    \A d \in Devices : dev[d].is_day_open <=> dev[d].fiscal_day_status # "FISCALDAYCLOSED"

C13_Witness ==
    \E d \in Devices :
        /\ dayOp.op = "close" /\ dayOp.device = d /\ dayOp.result = "ok"
        /\ dev[d].fiscal_day_status = "FISCALDAYCLOSEFAILED"
        /\ dev[d].is_day_open

(* C14: the step of a successful day close (button or job) leaves on the  *)
(* device every field the close response reports: fiscal_day_status,      *)
(* fiscal_day_no, last_receipt_no and last_receipt_global_no; for the     *)
(* response {FISCALDAYCLOSED, "12", lastReceiptNo 7} that is status       *)
(* FISCALDAYCLOSED, day number 12, last receipt number 7 and is_day_open  *)
(* false.                                                                 *)
C14_CloseResponseMirrored ==
    [][\A d \in Devices :
          (/\ dayReqs'[d].close = dayReqs[d].close + 1
           /\ dayOp'.device = d /\ dayOp'.result = "ok")
          => LET response == dayOp'.reply.body.json IN
             /\ dev'[d].fiscal_day_status = response["fiscalDayStatus"]
             /\ dev'[d].fiscal_day_no = response["fiscalDayNo"]
             /\ dev'[d].last_receipt_no = response["lastReceiptNo"]
             /\ "lastReceiptGlobalNo" \in DOMAIN response
                   => dev'[d].last_receipt_global_no = response["lastReceiptGlobalNo"]
             /\ response["fiscalDayStatus"] = "FISCALDAYCLOSED" => ~dev'[d].is_day_open]_vars

(* C15: a step of cron_auto_open_fiscal_day sends an open request only to *)
(* a device whose fiscal_day_status is FISCALDAYCLOSED when the request   *)
(* is sent, a step of cron_auto_close_fiscal_day a close request only to  *)
(* a device whose status is FISCALDAYOPENED; the jobs send no open or     *)
(* close request to a device in any other state.                          *)
C15_CronsActOnMatchingState ==
    [][\A d \in Devices :
          (job.todo # << >> /\ dayReqs'[d] # dayReqs[d])
          => /\ dayReqs'[d].open # dayReqs[d].open
                   => job.name = "open" /\ dev[d].fiscal_day_status = "FISCALDAYCLOSED"
             /\ dayReqs'[d].close # dayReqs[d].close
                   => job.name = "close" /\ dev[d].fiscal_day_status = "FISCALDAYOPENED"]_vars

C15_Witness ==
    \E d, e \in Devices :
        /\ job.name = "open" /\ job.todo = << >>
        /\ dayReqs[d].open = 1 /\ dev[d].fiscal_day_status = "FISCALDAYOPENED"
        /\ dayReqs[e] = NoRequests /\ dev[e].fiscal_day_status = NULL

(* the device shows what its own answer reported *)
UpdatedFromResponse(device, op, reply) ==
    CASE op = "status" ->
           /\ device.fiscal_day_status = Get(reply.body.json, "fiscalDayStatus", NULL)
           /\ device.last_receipt_no = Get(reply.body.json, "lastReceiptNo", 0)
           /\ device.last_receipt_global_no = Get(reply.body.json, "lastReceiptGlobalNo", 0)
           /\ device.last_status_check = now
      [] op = "open" ->
           /\ device.fiscal_day_status = "FISCALDAYOPENED"
           /\ device.fiscal_day_no = ToString(reply.body.json["fiscalDayNo"])
      [] op = "close" ->
           /\ device.fiscal_day_status = Get(reply.body.json, "fiscalDayStatus", NULL)
           /\ device.fiscal_day_no = Get(reply.body.json, "fiscalDayNo", NULL)
      [] OTHER ->
           device.access_token # NULL /\ device.token_expiry >= now

(* C16: in each of the four jobs every turn of the loop, whatever its     *)
(* outcome, passes on to the next device of the batch without raising,    *)
(* touches no other device, and leaves a device whose call succeeded      *)
(* updated from its own response; a started job gets through its whole    *)
(* batch.                                                                 *)
C16_BatchIsolatesFailures ==
    /\ [][job.todo # << >>
          => /\ job'.todo = Tail(job.todo)
             /\ ~job'.raised
             /\ dayOp'.device = Head(job.todo)
             /\ \A e \in Devices \ {Head(job.todo)} : dev'[e] = dev[e]
             /\ dayOp'.result = "ok"
                   => UpdatedFromResponse(dev'[Head(job.todo)], job.name, dayOp'.reply)]_vars
    /\ [](Len(job.done) + Len(job.todo) = Len(job.batch))
    /\ (job.todo # << >>) ~> (job.todo = << >> /\ ~job.raised /\ Len(job.done) = Len(job.batch))

C16_Witness ==
    /\ job.name = "status" /\ job.todo = << >>
    /\ job.batch = DeviceOrder
    /\ job.done = <<"ok", "failed", "ok">>
    /\ dev["d1"].fiscal_day_status = "FISCALDAYOPENED" /\ dev["d1"].last_receipt_no = 5
    /\ dev["d3"].fiscal_day_status = "FISCALDAYCLOSED" /\ dev["d3"].last_receipt_no = 7
    /\ devnotes["d2"] = 1


(* among the lines there is one whose first tax is price-inclusive and    *)
(* one whose first tax is price-exclusive                                 *)
MixedFlags(lines) ==
    \E m, n \in 1..Len(lines) :
        /\ lines[m].tax_ids # << >> /\ lines[m].tax_ids[1].price_include
        /\ lines[n].tax_ids # << >> /\ ~lines[n].tax_ids[1].price_include

(* the invocation has got past _prepare_fiscal_payload *)
Prepared(a) == loc[a].result \in {"running", "failed", "ok"} /\ pc[a] # "prepare"

(* the invocation failed in _prepare_fiscal_payload, before any request *)
FailedBeforeNetwork(a) ==
    /\ loc[a].result = "failed" /\ loc[a].stage = "payload"
    /\ loc[a].reqs = << >>
    /\ receiptReqs[loc[a].invoice] = 0

(* C17 as stated: for every invoice whose lines carry mixed               *)
(* tax-inclusion flags (one line whose first tax is price-inclusive, one  *)
(* whose first tax is price-exclusive), payload construction fails with   *)
(* an input error and the action issues no network call.                  *)
C17_MixedFlagsRejected ==
    \A a \in Sequential :
        (Prepared(a) /\ MixedFlags(docs[loc[a].invoice].lines)) => FailedBeforeNetwork(a)

(* C17 amended: the same for every invoice whose lines of positive        *)
(* quantity carry mixed flags; lines of quantity zero or less are not     *)
(* looked at.                                                             *)
C17_MixedFlagsOfPositiveLinesRejected ==
    \A a \in Sequential :
        (Prepared(a) /\ MixedFlags(PositiveLines(docs[loc[a].invoice])))
        => /\ FailedBeforeNetwork(a)
           /\ Contains(loc[a].error, "Mixed tax inclusion types detected.")

C17_Witness ==
    \E a \in Sequential :
        /\ FailedBeforeNetwork(a)
        /\ MixedFlags(PositiveLines(docs[loc[a].invoice]))
        /\ Contains(loc[a].error, "Mixed tax inclusion types detected.")
        /\ notes[loc[a].invoice] = 1

(* the qualifying lines of an invoice whose product has no HS code *)
MissingHS(move) ==
    SelectSeq(move.lines,
              LAMBDA line : /\ line.quantity > 0
                            /\ line.display_type \notin {"line_section", "line_note"}
                            /\ line.product_id # NULL
                            /\ line.hs_code = NULL)

NamesLine(text, line) ==
    \E l \in 1..Len(text) : text[l] = <<"Fiscalisation process failed:", "Product (", line.name,
                                        ") has no HS Code">>

(* C18 as stated: for every invoice with a qualifying line (positive      *)
(* quantity, no section or note line, with a product) whose product has   *)
(* no HS code, payload construction fails with an input error naming that *)
(* line, and the action issues no network call.                           *)
C18_MissingHSCodeNamed ==
    \A a \in Sequential :
        Prepared(a)
        => \A n \in 1..Len(MissingHS(docs[loc[a].invoice])) :
              /\ FailedBeforeNetwork(a)
              /\ NamesLine(loc[a].error, MissingHS(docs[loc[a].invoice])[n])

(* C18 amended: such an invoice fails in payload construction with an     *)
(* input error and without a network call; the error names the first such *)
(* line in line order, unless the mixed tax-inclusion check or the        *)
(* missing-customer check failed first.                                   *)
C18_FirstMissingHSCodeNamed ==
    \A a \in Sequential :
        (Prepared(a) /\ MissingHS(docs[loc[a].invoice]) # << >>)
        => /\ FailedBeforeNetwork(a)
           /\ (/\ ~MixedFlags(PositiveLines(docs[loc[a].invoice]))
               /\ docs[loc[a].invoice].partner_id # NULL)
              => NamesLine(loc[a].error, MissingHS(docs[loc[a].invoice])[1])

C18_Witness ==
    \E a \in Sequential :
        /\ FailedBeforeNetwork(a)
        /\ Len(MissingHS(docs[loc[a].invoice])) = 2
        /\ MissingHS(docs[loc[a].invoice])[1].name = "Doohickey"
        /\ Contains(loc[a].error, "Doohickey")
        /\ notes[loc[a].invoice] = 1

Sales(receiptLines) == SelectSeq(receiptLines, LAMBDA line : line.receiptLineType = "Sale")

(* C19: in a built payload every monetary figure (price and total of each *)
(* Sale and Discount line, receiptTotal, paymentAmount) of a CreditNote   *)
(* (out_refund) is the negation of the figure the same invoice gives as   *)
(* an ordinary invoice; for FiscalInvoice and DebitNote it is that figure *)
(* itself, the Sale figures being price_unit and price_unit * quantity    *)
(* and receiptTotal being amount_total; paymentAmount equals              *)
(* receiptTotal.                                                          *)
C19_UniformSignAdjustment ==
    \A a \in Sequential :
        loc[a].payload # NoPayload
        => LET move == docs[loc[a].invoice]
               payload == loc[a].payload
               plain == _prepare_fiscal_payload([move EXCEPT !.move_type = "out_invoice"]).payload
               sign == IF move.move_type = "out_refund" THEN 0 - 1 ELSE 1
               sales == Sales(payload.receiptLines)
               src == inv_lines(move)
           IN /\ payload.receiptType = "CreditNote" <=> move.move_type = "out_refund"
              /\ Len(payload.receiptLines) = Len(plain.receiptLines)
              /\ \A n \in 1..Len(payload.receiptLines) :
                    /\ payload.receiptLines[n].receiptLinePrice
                           = sign * plain.receiptLines[n].receiptLinePrice
                    /\ payload.receiptLines[n].receiptLineTotal
                           = sign * plain.receiptLines[n].receiptLineTotal
              /\ Len(sales) = Len(src)
              /\ \A k \in 1..Len(sales) :
                    /\ sales[k].receiptLinePrice = sign * Cents(src[k].price_unit)
                    /\ sales[k].receiptLineTotal = sign * Cents(src[k].price_unit * src[k].quantity)
              /\ payload.receiptTotal = sign * Cents(move.amount_total)
              /\ Len(payload.receiptPayments) = 1
              /\ payload.receiptPayments[1].paymentAmount = payload.receiptTotal

C19_Witness ==
    \E a \in Sequential :
        /\ loc[a].result = "ok"
        /\ loc[a].payload # NoPayload
        /\ loc[a].payload.receiptType = "CreditNote"
        /\ loc[a].payload.receiptTotal < 0
        /\ Len(loc[a].payload.receiptLines) = 3
        /\ loc[a].payload.receiptLines[1].receiptLinePrice < 0
        /\ loc[a].payload.receiptLines[2].receiptLineType = "Discount"
        /\ loc[a].payload.receiptLines[2].receiptLinePrice > 0

(* C20: in the receiptLines of a built payload the line numbers run 1, 2, *)
(* 3, ... over Sale and Discount lines alike; every source line with      *)
(* discount > 0 gives a Sale line followed at once by a Discount line     *)
(* with the next number, the same HS code and the same taxPercent (or     *)
(* none if the Sale line has none), whose price and total are the         *)
(* negation of the sign-adjusted discount amount and total; a source line *)
(* without discount gives a Sale line only.                               *)
C20_DiscountLineFollowsSale ==
    \A a \in Sequential :
        loc[a].payload # NoPayload
        => LET move == docs[loc[a].invoice]
               lines == loc[a].payload.receiptLines
               src == inv_lines(move)
               sign == IF move.move_type = "out_refund" THEN 0 - 1 ELSE 1
               Discounted(k) == src[k].discount > 0
               Pos(k) == k + Cardinality({ j \in 1..(k - 1) : Discounted(j) })
           IN /\ \A n \in 1..Len(lines) : lines[n].receiptLineNo = n
              /\ Len(lines) = Len(src) + Cardinality({ j \in 1..Len(src) : Discounted(j) })
              /\ \A k \in 1..Len(src) :
                    /\ lines[Pos(k)].receiptLineType = "Sale"
                    /\ lines[Pos(k)].receiptLineName = <<src[k].name>>
                    /\ IF Discounted(k)
                       THEN LET sale == lines[Pos(k)]
                                discount == lines[Pos(k) + 1]
                            IN /\ discount.receiptLineType = "Discount"
                               /\ discount.receiptLineNo = sale.receiptLineNo + 1
                               /\ discount.receiptLineHSCode = sale.receiptLineHSCode
                               /\ ("taxPercent" \in DOMAIN discount) <=> ("taxPercent" \in DOMAIN sale)
                               /\ "taxPercent" \in DOMAIN sale
                                     => discount.taxPercent = sale.taxPercent
                               /\ discount.receiptLinePrice
                                     = (0 - 1) * (sign * src[k].price_unit * src[k].discount)
                               /\ discount.receiptLineTotal
                                     = (0 - 1) * (sign * src[k].price_unit * src[k].discount
                                                       * src[k].quantity)
                       ELSE Pos(k) + 1 <= Len(lines)
                               => lines[Pos(k) + 1].receiptLineType = "Sale"

C20_Witness ==
    \E a \in Sequential :
        /\ loc[a].result = "ok"
        /\ loc[a].payload # NoPayload
        /\ Len(loc[a].payload.receiptLines) = 4
        /\ loc[a].payload.receiptLines[1].receiptLineType = "Sale"
        /\ loc[a].payload.receiptLines[2].receiptLineType = "Discount"
        /\ loc[a].payload.receiptLines[2].receiptLineNo = 2
        /\ "taxPercent" \in DOMAIN loc[a].payload.receiptLines[2]
        /\ loc[a].payload.receiptLines[2].taxPercent = 16
        /\ loc[a].payload.receiptLines[2].receiptLinePrice = 0 - 1000
        /\ loc[a].payload.receiptLines[3].receiptLineType = "Sale"
        /\ loc[a].payload.receiptLines[3].receiptLineNo = 3
        /\ loc[a].payload.receiptLines[4].receiptLineType = "Discount"
        /\ "taxPercent" \notin DOMAIN loc[a].payload.receiptLines[4]

(* the answer that was classified and the structured error it gave *)
Classified(status_codes) ==
    /\ parsed.done
    /\ parsed.response.status \in status_codes
    /\ parsed.response.body.kind = "object"

(* one line "Field {field}: {comma-joined messages}" per entry of errors *)
RECURSIVE ExpectedFieldLines(_)
ExpectedFieldLines(entries) ==
    IF entries = << >> THEN << >>
    ELSE << <<"Field", Head(entries)[1], ":">> \o Head(entries)[2] >>
         \o ExpectedFieldLines(Tail(entries))

ExpectedLabel(d) ==
    IF "errorCode" \in DOMAIN d /\ d["errorCode"] \in DOMAIN error_map
    THEN error_map[d["errorCode"]]
    ELSE "Validation error occurred"

(* C21: the message classified from an HTTP 422 answer is the join of the  *)
(* label of its errorCode (the generic label for an unknown code), its     *)
(* detail if it has one, and one "Field ..." line per entry of errors;     *)
(* an answer without detail gets no line for it.                           *)
C21_ValidationMessageLines ==
    Classified({422}) =>
        LET d == parsed.response.body.json IN
        parsed.error_data.message =
            << <<ExpectedLabel(d)>> >>
            \o (IF "detail" \in DOMAIN d THEN << <<d["detail"]>> >> ELSE << >>)
            \o (IF "errors" \in DOMAIN d THEN ExpectedFieldLines(d["errors"]) ELSE << >>)

(* C24: for a non-2xx answer other than 422 the structured error takes its *)
(* code from errorCode (else type), its message from detail (else title),  *)
(* its operation_id from operationID and its status from the body's status *)
(* (else the HTTP status code); an answer that is not JSON gives           *)
(* INVALID_RESPONSE, the non-JSON message and the HTTP status code.        *)
C24_ProblemDetailsExtracted ==
    /\ Classified({400, 500}) =>
        LET d == parsed.response.body.json
            e == parsed.error_data
        IN /\ ~e.raises
           /\ "errorCode" \in DOMAIN d => e.code = d["errorCode"]
           /\ ("errorCode" \notin DOMAIN d /\ "type" \in DOMAIN d) => e.code = d["type"]
           /\ "detail" \in DOMAIN d => e.message = << <<d["detail"]>> >>
           /\ ("detail" \notin DOMAIN d /\ "title" \in DOMAIN d) => e.message = << <<d["title"]>> >>
           /\ "operationID" \in DOMAIN d => e.operation_id = d["operationID"]
           /\ e.status = (IF "status" \in DOMAIN d THEN d["status"] ELSE parsed.response.status)
    /\ (parsed.done /\ parsed.response.status # 422 /\ parsed.response.body.kind = "nonjson") =>
           /\ ~parsed.error_data.raises
           /\ parsed.error_data.code = "INVALID_RESPONSE"
           /\ parsed.error_data.message = << <<"Server returned non-JSON response">> >>
           /\ parsed.error_data.status = parsed.response.status

(* an answer with type and title only, and its own status, was classified *)
C24_Witness ==
    /\ Classified({400})
    /\ DOMAIN parsed.response.body.json = {"type", "title", "status"}
    /\ parsed.error_data.code = "unauthorized"
    /\ parsed.error_data.message = << <<"Duplicate invoice">> >>
    /\ parsed.error_data.status = 409

(* this step is the operation op on device d: one turn of the loop of the *)
(* job for op, or the button for op                                       *)
OperationOn(op, d) ==
    \/ job.todo # << >> /\ job.name = op /\ Head(job.todo) = d
    \/ /\ job.todo = << >> /\ job' = job /\ ops' = ops + 1
       /\ dayOp'.source = "button" /\ dayOp'.op = op /\ dayOp'.device = d

(* the record after differs from the record before in the diagnostic      *)
(* fields at most                                                         *)
OnlyDiagnosticsChanged(before, after) ==
    [after EXCEPT !.last_error_code = before.last_error_code,
                  !.last_error_message = before.last_error_message,
                  !.last_error_status = before.last_error_status,
                  !.last_status_check = before.last_status_check] = before

(* ... or in the token fields, which a token acquired on the way rewrites *)
OnlyDiagnosticsAndTokenChanged(before, after) ==
    OnlyDiagnosticsChanged(before,
                           [after EXCEPT !.access_token = before.access_token,
                                         !.refresh_token = before.refresh_token,
                                         !.token_expiry = before.token_expiry])

DayOpened(d) ==
    /\ dev'[d].fiscal_day_status = "FISCALDAYOPENED"
    /\ dev'[d].fiscal_day_no = ToString(dayOp'.reply.body.json["fiscalDayNo"])
    /\ dev'[d].last_operation = now'
    /\ dev'[d].is_day_open

(* C22 as stated: an open (button or job) whose call succeeds leaves the  *)
(* device OPENED with the returned fiscalDayNo and last_operation         *)
(* stamped; one whose call fails leaves the device as it was except for   *)
(* the diagnostic fields last_error_* and last_status_check.              *)
C22_OpenFrameDiagnosticsOnly ==
    [][\A d \in Devices :
          OperationOn("open", d)
          => /\ dayOp'.result = "ok" => DayOpened(d)
             /\ dayOp'.result = "failed" => OnlyDiagnosticsChanged(dev[d], dev'[d])]_vars

(* C22 amended: an open whose call succeeds leaves the device OPENED with *)
(* the returned fiscalDayNo and last_operation stamped; one whose call    *)
(* fails leaves fiscal_day_status, fiscal_day_no, last_operation and      *)
(* every other field as they were, except the diagnostic fields and the   *)
(* token fields (access_token, refresh_token, token_expiry), which a      *)
(* token acquired before the failing request rewrites.                    *)
C22_OpenFrameDiagnosticsAndToken ==
    [][\A d \in Devices :
          OperationOn("open", d)
          => /\ dayOp'.result = "ok" => DayOpened(d)
             /\ dayOp'.result = "failed"
                   => OnlyDiagnosticsAndTokenChanged(dev[d], dev'[d])]_vars

(* an open failed at the open endpoint after it had acquired a token *)
C22_Witness ==
    \E d \in Devices :
        /\ dayOp.op = "open" /\ dayOp.device = d /\ dayOp.result = "failed" /\ dayOp.sent
        /\ dev[d].access_token = "tokA"
        /\ dev[d].last_error_status = 500
        /\ dev[d].fiscal_day_status = "FISCALDAYCLOSED"
        /\ dev[d].last_operation = Unset

(* C23: after a successful close call (button or job) the device's        *)
(* fiscal_day_status is the fiscalDayStatus the response reports,         *)
(* whatever it is, and is_day_open is false exactly when that reported    *)
(* status is FISCALDAYCLOSED.                                             *)
C23_CloseAdoptsReportedStatus ==
    [][\A d \in Devices :
          (OperationOn("close", d) /\ dayOp'.result = "ok")
          => LET reported == dayOp'.reply.body.json["fiscalDayStatus"] IN
             /\ dev'[d].fiscal_day_status = reported
             /\ dev'[d].is_day_open <=> reported # "FISCALDAYCLOSED"]_vars

(* the closing job got FISCALDAYCLOSEFAILED for an opened day and the     *)
(* device took it over                                                    *)
C23_Witness ==
    \E d \in Devices :
        /\ dayOp.source = "cron" /\ dayOp.op = "close" /\ dayOp.device = d
        /\ dayOp.result = "ok"
        /\ dayOp.reply.body.json["fiscalDayStatus"] = "FISCALDAYCLOSEFAILED"
        /\ dev[d].fiscal_day_status = "FISCALDAYCLOSEFAILED"
        /\ dev[d].last_receipt_global_no = 107
        /\ dev[d].is_day_open

(* C26: in each of the four jobs a turn of the loop that fails on its     *)
(* device posts a note on that device and passes on to the next device.   *)
C26_EveryJobPostsNote ==
    [][(job.todo # << >> /\ dayOp'.result # "ok")
          => /\ devnotes'[Head(job.todo)] = devnotes[Head(job.todo)] + 1
             /\ job'.todo = Tail(job.todo)
             /\ ~job'.raised]_vars

(* the answer of this step reports no counter below the one the device    *)
(* holds                                                                  *)
NoCounterReportedLower(d) ==
    (dayOp'.reply.kind = "ok" /\ dayOp'.reply.body.kind = "object")
    => LET response == dayOp'.reply.body.json IN
       /\ "lastReceiptGlobalNo" \in DOMAIN response
             => response["lastReceiptGlobalNo"] >= dev[d].last_receipt_global_no
       /\ "lastReceiptNo" \in DOMAIN response
             => response["lastReceiptNo"] >= dev[d].last_receipt_no

(* C28: as long as the remote service reports no decreasing counter, no   *)
(* step (status check, open, close, token refresh, successful or failed)  *)
(* lowers last_receipt_global_no or last_receipt_no of a device.          *)
C28_CountersNeverDecrease ==
    [][\A d \in Devices :
          ((\E op \in CronJobs : OperationOn(op, d)) => NoCounterReportedLower(d))
          => /\ dev'[d].last_receipt_global_no >= dev[d].last_receipt_global_no
             /\ dev'[d].last_receipt_no >= dev[d].last_receipt_no]_vars

(* C29: an open (button) on a device that is already OPENED and a close   *)
(* (button) on a device that is already CLOSED send no request and leave  *)
(* the device as it was.                                                  *)
C29_DayTransitionsIdempotent ==
    [][\A d \in Devices :
          \/ OperationOn("open", d) /\ dev[d].fiscal_day_status = "FISCALDAYOPENED"
          \/ OperationOn("close", d) /\ dev[d].fiscal_day_status = "FISCALDAYCLOSED"
          => /\ dayReqs'[d] = dayReqs[d]
             /\ dev'[d] = dev[d]]_vars

(* the partner of the invoice has both a VAT number and a TIN *)
HasVatAndTin(move) ==
    /\ move.partner_id # NULL
    /\ partnerData[move.partner_id].vat # NULL
    /\ partnerData[move.partner_id].tin # NULL

(* C25: buyer data is built exactly when the partner of the invoice has   *)
(* both a VAT number and a TIN, and then carries that VAT number and that *)
(* TIN; in every other case, an invoice without partner included, the     *)
(* payload is built with buyerData null: construction does not fail for   *)
(* the lack of buyer data.                                                *)
C25_BuyerDataIffVatAndTin ==
    \A a \in Sequential :
        Prepared(a)
        => LET move == docs[loc[a].invoice] IN
           /\ ~Contains(loc[a].error, "Customer information is required for fiscalisation")
           /\ (loc[a].stage # "payload" /\ HasVatAndTin(move))
                 => /\ loc[a].payload.buyerData.kind = "object"
                    /\ loc[a].payload.buyerData.json.vatNumber = partnerData[move.partner_id].vat
                    /\ loc[a].payload.buyerData.json.buyerTIN = partnerData[move.partner_id].tin
           /\ (loc[a].stage # "payload" /\ ~HasVatAndTin(move))
                 => loc[a].payload.buyerData = JsonNull

(* C30: in every reachable state an invoice with fiscalised = true has a  *)
(* verification code, a receipt number and a QR URL recorded, whatever    *)
(* 2xx body the receipt endpoint returned, one that omits some of these   *)
(* fields included.                                                       *)
C30_FiscalisedHasReceiptFields ==
    \A i \in Invoices :
        inv[i].fiscalised
        => /\ inv[i].verification_code # NULL
           /\ inv[i].receipt_number # NULL
           /\ inv[i].qr_url # NULL

(* C27: over every sequence of device creations the uniqueness constraint *)
(* on (company, device_id) accepts, each company has at most one device,  *)
(* so the search by company of action_fiscalise_invoice has one match at  *)
(* most to select from.                                                   *)
C27_OneDevicePerCompany ==
    \A company \in Companies : Len(search_company(registry, company)) <= 1

(* both day jobs would run their loop at this reading of the clock *)
BothEnabled(clock) == InOpenWindow(clock[1], clock[2]) /\ InCloseWindow(clock[1], clock[2])

Holds(statuses, fiscal_day_status) ==
    \E n \in 1..Len(statuses) : statuses[n] = fiscal_day_status

(* device d was both opened and closed by the day jobs within this minute *)
OpenedAndClosed(d) ==
    /\ Holds(schedule.moved[d], "FISCALDAYOPENED")
    /\ Holds(schedule.moved[d], "FISCALDAYCLOSED")

(* C31: the windows of cron_auto_open_fiscal_day and                      *)
(* cron_auto_close_fiscal_day are disjoint: at no (hour, minute) are both *)
(* jobs enabled, so no device is opened by one job and closed by the      *)
(* other (in either order) within the same minute.                        *)
C31_WindowsDisjoint ==
    /\ ~BothEnabled(schedule.clock)
    /\ \A d \in Devices : ~OpenedAndClosed(d)

(* the `except requests.exceptions.HTTPError` clause of                   *)
(* action_fiscalise_invoice, for an answer whose body is the JSON object  *)
(* error_data and whose str(e) is str_e: the code and message it extracts *)
HttpErrorClause(error_data, str_e) ==
    [error_code |-> Get(error_data, "errorCode", "UNKNOWN"),
     error_message |->
         IF Get(error_data, "errorCode", "UNKNOWN") = "RCPT013"
         THEN "This invoice number already exists in the fiscal system"
         ELSE Get(error_data, "detail", Get(error_data, "title", str_e))]

(* the note that clause posts and the error it raises *)
HttpErrorNote(e) ==
    << <<"Fiscalisation Failed (Code:", e.error_code, ")">>, <<e.error_message>> >>

HttpErrorText(e) == << <<"Fiscalisation Error [", e.error_code, "]:", e.error_message>> >>

(* the receipt request of the invocation was answered with RCPT013 *)
RejectedAsDuplicate(a) ==
    /\ loc[a].result = "failed" /\ loc[a].stage = "primary"
    /\ loc[a].outcome.kind = "http" /\ loc[a].outcome.body.kind = "object"
    /\ Get(loc[a].outcome.body.json, "errorCode", "") = "RCPT013"

(* C32: when the receipt endpoint rejects the submission with the         *)
(* duplicate-invoice code RCPT013, action_fiscalise_invoice takes its     *)
(* HTTP-error path: the note reads 'Fiscalisation Failed (Code:           *)
(* RCPT013)', the raised error is 'Fiscalisation Error [RCPT013]: This    *)
(* invoice number already exists in the fiscal system', and fiscalised    *)
(* stays false.                                                           *)
C32_DuplicateTakesHttpErrorPath ==
    \A a \in Sequential :
        RejectedAsDuplicate(a)
        => /\ Head(loc[a].note) =
                  Head(HttpErrorNote(HttpErrorClause(loc[a].outcome.body.json, "400 Client Error")))
           /\ loc[a].error =
                  HttpErrorText(HttpErrorClause(loc[a].outcome.body.json, "400 Client Error"))
           /\ ~inv[loc[a].invoice].fiscalised

=============================================================================
